---- MODULE Spec2Model ----
(***************************************************************************)
(* Verification model of the teaching-content generator: the multi-query   *)
(* retriever with Reciprocal Rank Fusion (app/services/retriever.py), the  *)
(* context packer (app/services/generator.py) and the ingestion pipelines  *)
(* over the shared, namespaced vector index (app/main/main_*.py).          *)
(*                                                                         *)
(* Fused scores are Python floats in the source.  The model keeps them as  *)
(* exact rationals: a score s is stored as the integer s * RrfScale, where *)
(* RrfScale is a common multiple of every denominator 60 + rank.           *)
(***************************************************************************)
EXTENDS Integers, Sequences, FiniteSets, TLC

VARIABLES
    ranked_lists,   \* retriever: the per-query hit lists handed to _rrf_fuse
    fused,          \* retriever: _rrf_fuse(ranked_lists)
    fusedSwapped,   \* retriever: _rrf_fuse of the same two lists, swapped
    hits,           \* retriever: the value returned by retrieve_from_queries
    final_k,        \* retriever: the final_k argument of the call
    fpc,            \* retriever: position of the retrieval call
    pk_hits,        \* packer: the hits handed to _pack_context
    max_context_chars, \* packer: the character budget
    lines,          \* packer: the list `lines` when _pack_context returns
    context_block,  \* packer: the string _pack_context returns
    ppc,            \* packer: position of the packing call
    pk_other,       \* packer: hits with the texts of pk_hits under other ids and scores
    context_other,  \* packer: the string _pack_context returns for pk_other
    run,            \* pipelines: per run, its source, namespace, position and results
    index,          \* the shared vector index: namespace -> (id -> stored vector)
    clock,          \* wall clock, in ticks
    written,        \* history: every upsert call, as its namespace and the chunks sent
    oplog,          \* history: every index call, with its run and namespace
    gen,            \* generator: one call of generate_all / generate_article_content
    js,             \* generator: one call of _json_sanitize
    comb,           \* combined pipeline: one call of main_combined.run_pipeline
    ups,            \* upsert: one run of the batch loop of main_article.run_pipeline
    rq,             \* retriever: one call of retrieve_from_queries, with its outgoing calls
    pl,             \* planner: the subtopics of one plan through _normalize_weights
    qg,             \* query expansion: one call of generate_queries_from_plan
    nsp,            \* combined pipeline: two source batches and their namespaces
    tp              \* topic pipeline: one call of generate_content_from_plan

fuseVars == <<ranked_lists, fused, fusedSwapped, hits, final_k, fpc>>
packVars == <<pk_hits, max_context_chars, lines, context_block, ppc, pk_other, context_other>>
pipeVars == <<run, index, clock, written, oplog>>
genVars == <<gen, js>>
combVars == <<comb>>
extVars == <<ups, rq, pl, qg, nsp, tp>>
vars == <<fuseVars, packVars, pipeVars, genVars, combVars, extVars>>

----------------------------------------------------------------------------
(* Bounds of the model *)

NumIds == 3          \* distinct chunk ids a query can return
MaxLen == 2          \* hits per ranked list in the generic retrieval inputs
MaxLists == 2        \* ranked lists (queries) per retrieval call
MaxFinalK == 2       \* largest final_k tried
MaxHits == 3         \* hits handed to the packer
MaxTextLen == 2      \* characters of one hit text
MaxBudget == 7       \* largest max_context_chars tried
MaxRelabel == 2      \* other id and score assignments tried for one list of texts
GenMaxHits == 2      \* hits (or contexts) handed to a generator
MaxRaw == 4          \* tokens of an LLM text handed to the JSON guard alone
MaxSources == 3      \* videos, articles and files of one combined call, together
MaxChunks == 2       \* chunks the chunker makes of one source of a combined call
MaxExtra == 1        \* vectors beyond two full batches handed to the upsert loop
MaxSubs == 4         \* subtopics of a plan
MaxWeight == 4       \* largest small weight the LLM gives a subtopic
MaxUrls == 1         \* urls, or files, of one kind in a source batch
MaxLines == 2        \* lines of the LLM text of the query expansion
MaxLineWords == 10   \* words of the longest line of that text
MaxClock == 2        \* clock ticks of a behaviour
TicksPerSecond == 2  \* clock ticks in one second
SmallDoc == 2        \* chunks of the short version of a source text
EmbRange == 11       \* distinct embedding values

(* Program constants *)

K_RRF == 60          \* retrieve_from_queries: _rrf_fuse(ranked_lists, k=60)
per_query_k == 5     \* generate_all: per_query_k=5

\* a hit without a "text" key / keep_text.get(cid) = None: no sequence of characters
NoText == <<"None">>

Min(a, b) == IF a < b THEN a ELSE b
Max(a, b) == IF a > b THEN a ELSE b

----------------------------------------------------------------------------
(* Reciprocal Rank Fusion: retriever.py, _rrf_fuse *)

RECURSIVE RrfScaleUpTo(_)
RrfScaleUpTo(r) == IF r = 0 THEN 1 ELSE (K_RRF + r) * RrfScaleUpTo(r - 1)

\* common denominator of the contributions 1 / (k + rank), rank in 1..per_query_k
RrfScale == RrfScaleUpTo(per_query_k)

\* a 0-based rank (enumerate without start=1)
WeightZeroBased(rank) == RrfScale \div (K_RRF + rank - 1)

\* 1.0 / (k + rank), as a multiple of 1 / RrfScale
Weight(rank) == RrfScale \div (K_RRF + rank)

EmptyAcc == [order |-> <<>>, scores |-> <<>>, keep_text |-> <<>>]

Extend(f, key, val) == [c \in (DOMAIN f) \cup {key} |-> IF c = key THEN val ELSE f[c]]

\* scores[cid] = ... instead of scores[cid] += ...
ScanItemOverwrite(acc, item, rank) ==
    LET cid == item.id
        seen == cid \in DOMAIN acc.scores
    IN  [order |-> IF seen THEN acc.order ELSE Append(acc.order, cid),
         scores |-> Extend(acc.scores, cid, Weight(rank)),
         keep_text |-> IF cid \notin DOMAIN acc.keep_text /\ item.text # NoText
                       THEN Extend(acc.keep_text, cid, item.text)
                       ELSE acc.keep_text]

\* the rank keeps counting over the ids already met instead of restarting per list
ScanItemRunningRank(acc, item, rank) ==
    LET cid == item.id
        seen == cid \in DOMAIN acc.scores
        old == IF seen THEN acc.scores[cid] ELSE 0
    IN  [order |-> IF seen THEN acc.order ELSE Append(acc.order, cid),
         scores |-> Extend(acc.scores, cid,
                           old + RrfScale \div (K_RRF + rank + Len(acc.order))),
         keep_text |-> IF cid \notin DOMAIN acc.keep_text /\ item.text # NoText
                       THEN Extend(acc.keep_text, cid, item.text)
                       ELSE acc.keep_text]

\* one iteration of the inner loop: scores (a dict, so insertion-ordered) and keep_text
ScanItem(acc, item, rank) ==
    LET cid == item.id
        seen == cid \in DOMAIN acc.scores
        old == IF seen THEN acc.scores[cid] ELSE 0
    IN  [order |-> IF seen THEN acc.order ELSE Append(acc.order, cid),
         scores |-> Extend(acc.scores, cid, old + Weight(rank)),
         keep_text |-> IF cid \notin DOMAIN acc.keep_text /\ item.text # NoText
                       THEN Extend(acc.keep_text, cid, item.text)
                       ELSE acc.keep_text]

RECURSIVE ScanList(_, _, _)
\* for rank, item in enumerate(ranked, start=1)
ScanList(acc, ranked, rank) ==
    IF rank > Len(ranked) THEN acc
    ELSE ScanList(ScanItem(acc, ranked[rank], rank), ranked, rank + 1)

RECURSIVE ScanLists(_, _, _)
\* for ranked in ranked_lists
ScanLists(acc, lists, li) ==
    IF li > Len(lists) THEN acc
    ELSE ScanLists(ScanList(acc, lists[li], 1), lists, li + 1)

RECURSIVE InsertAt(_, _, _)
\* position of x in a descending stable order: behind every element that is not smaller
InsertAt(sorted, x, i) ==
    IF i > Len(sorted) THEN i
    ELSE IF sorted[i].score >= x.score THEN InsertAt(sorted, x, i + 1)
    ELSE i

RECURSIVE InsertAtAscending(_, _, _)
\* reverse=True forgotten: ascending order
InsertAtAscending(sorted, x, i) ==
    IF i > Len(sorted) THEN i
    ELSE IF sorted[i].score <= x.score THEN InsertAtAscending(sorted, x, i + 1)
    ELSE i

RECURSIVE InsertAtUnstable(_, _, _)
\* a descending sort that puts a later equal element first
InsertAtUnstable(sorted, x, i) ==
    IF i > Len(sorted) THEN i
    ELSE IF sorted[i].score > x.score THEN InsertAtUnstable(sorted, x, i + 1)
    ELSE i

InsertDescAscending(sorted, x) ==
    LET p == InsertAtAscending(sorted, x, 1)
    IN  SubSeq(sorted, 1, p - 1) \o <<x>> \o SubSeq(sorted, p, Len(sorted))

InsertDescUnstable(sorted, x) ==
    LET p == InsertAtUnstable(sorted, x, 1)
    IN  SubSeq(sorted, 1, p - 1) \o <<x>> \o SubSeq(sorted, p, Len(sorted))

InsertDesc(sorted, x) ==
    LET p == InsertAt(sorted, x, 1)
    IN  SubSeq(sorted, 1, p - 1) \o <<x>> \o SubSeq(sorted, p, Len(sorted))

RECURSIVE SortDesc(_, _, _)
\* fused.sort(key=score, reverse=True): a stable sort, equal keys keep their order
SortDesc(sorted, seq, i) ==
    IF i > Len(seq) THEN sorted
    ELSE SortDesc(InsertDesc(sorted, seq[i]), seq, i + 1)

_rrf_fuse(lists) ==
    LET acc == ScanLists(EmptyAcc, lists, 1)
        items == [i \in 1..Len(acc.order) |->
                    LET cid == acc.order[i]
                    IN  [id |-> cid,
                         score |-> acc.scores[cid],
                         text |-> IF cid \in DOMAIN acc.keep_text
                                  THEN acc.keep_text[cid] ELSE NoText]]
    IN  SortDesc(<<>>, items, 1)

\* Python's seq[:k]
SliceTo(seq, k) ==
    IF k >= 0 THEN SubSeq(seq, 1, Min(k, Len(seq)))
    ELSE SubSeq(seq, 1, Max(Len(seq) + k, 0))

\* retrieve_from_queries from the fusion step on: fused = _rrf_fuse(...); fused[:final_k]
FuseAndTruncate(lists, k) == SliceTo(_rrf_fuse(lists), k)

----------------------------------------------------------------------------
(* Context packing: generator.py, _pack_context *)

Space == " "
Newline == "\n"
TextChars == {"a", Space}

\* the literal "CONTEXT SNIPPETS:"
ContextHeader ==
    <<"C", "O", "N", "T", "E", "X", "T", " ",
      "S", "N", "I", "P", "P", "E", "T", "S", ":">>

IsSpace(c) == c \in {Space, Newline}

RECURSIVE LStrip(_)
LStrip(s) == IF s # <<>> /\ IsSpace(Head(s)) THEN LStrip(Tail(s)) ELSE s

RECURSIVE RStrip(_)
RStrip(s) ==
    IF s # <<>> /\ IsSpace(s[Len(s)]) THEN RStrip(SubSeq(s, 1, Len(s) - 1)) ELSE s

\* str.strip()
Strip(s) == RStrip(LStrip(s))

\* a snippet that grows with the score of its hit
HitTextScored(h) ==
    IF h.text = NoText THEN <<>> ELSE Strip(h.text) \o [k \in 1..h.score |-> "a"]

\* (h.get("text") or "").strip()
HitText(h) == IF h.text = NoText THEN <<>> ELSE Strip(h.text)

PackStart == [lines |-> <<ContextHeader>>, total |-> 0, stopped |-> FALSE]

\* `continue` where the code has `break`: a later snippet that fits is still taken
PackStepContinue(st, h, budget) ==
    LET txt == HitText(h)
        snippet == txt \o <<Newline>>
    IN  IF txt = <<>> THEN st
        ELSE IF st.total + Len(snippet) > budget /\ st.total > 0 THEN st
        ELSE [st EXCEPT !.lines = Append(st.lines, snippet),
                        !.total = st.total + Len(snippet)]

\* one iteration of `for h in hits`; stopped records the break
PackStep(st, h, budget) ==
    LET txt == HitText(h)
        snippet == txt \o <<Newline>>
    IN  IF txt = <<>> THEN st
        ELSE IF st.total + Len(snippet) > budget /\ st.total > 0
             THEN [st EXCEPT !.stopped = TRUE]
        ELSE [st EXCEPT !.lines = Append(st.lines, snippet),
                        !.total = st.total + Len(snippet)]

RECURSIVE PackLoop(_, _, _, _)
PackLoop(st, hs, i, budget) ==
    IF st.stopped \/ i > Len(hs) THEN st
    ELSE PackLoop(PackStep(st, hs[i], budget), hs, i + 1, budget)

\* the list `lines` at the return statement
PackLines(hs, budget) == PackLoop(PackStart, hs, 1, budget).lines

RECURSIVE Join(_, _)
\* sep.join(parts)
Join(parts, sep) ==
    IF parts = <<>> THEN <<>>
    ELSE IF Len(parts) = 1 THEN parts[1]
    ELSE parts[1] \o <<sep>> \o Join(Tail(parts), sep)

_pack_context(hs, budget) == Join(PackLines(hs, budget), Newline)

----------------------------------------------------------------------------
(* The JSON guard and the result blocks: generator.py, article_generator.py *)

\* a JSON value of a block: a string, or a list of strings
StrV(s) == [list |-> FALSE, items |-> <<s>>]
ListV(xs) == [list |-> TRUE, items |-> xs]

\* LLM text is a sequence of tokens: a brace, a "key": value member of an object (with
\* its comma), a number, a word of prose, a markdown fence, a newline
Plain(k) == [kind |-> k, key |-> "", val |-> StrV("")]
LB == Plain("{")
RB == Plain("}")
Num == Plain("1")
Word == Plain("w")
Fence == Plain("fence")
NL == Plain("\n")
Member(key, val) == [kind |-> "member", key |-> key, val |-> val]

IsBlank(t) == t.kind = "\n"

RECURSIVE StripLeft(_)
StripLeft(s) == IF s # <<>> /\ IsBlank(Head(s)) THEN StripLeft(Tail(s)) ELSE s

RECURSIVE StripRight(_)
StripRight(s) ==
    IF s # <<>> /\ IsBlank(s[Len(s)]) THEN StripRight(SubSeq(s, 1, Len(s) - 1)) ELSE s

\* str.strip() of an LLM text
StripText(s) == StripRight(StripLeft(s))

\* the dict of an object's members; of two members with one key the later one counts
DictOf(ms) ==
    [k \in {ms[i].key : i \in 1..Len(ms)} |->
        ms[CHOOSE i \in 1..Len(ms) :
              ms[i].key = k /\ \A j \in (i + 1)..Len(ms) : ms[j].key # k].val]

NotParsed == [ok |-> FALSE, isDict |-> FALSE, dict |-> <<>>]

\* json.loads(s): whitespace between tokens is skipped; the text must be one number or
\* one object; ok = FALSE stands for JSONDecodeError
JsonLoads(s) ==
    LET body == SelectSeq(s, LAMBDA t : ~IsBlank(t))
    IN  IF body = <<Num>> THEN [ok |-> TRUE, isDict |-> FALSE, dict |-> <<>>]
        ELSE IF /\ Len(body) >= 2
                /\ body[1] = LB
                /\ body[Len(body)] = RB
                /\ \A i \in 2..(Len(body) - 1) : body[i].kind = "member"
             THEN [ok |-> TRUE, isDict |-> TRUE,
                   dict |-> DictOf(SubSeq(body, 2, Len(body) - 1))]
        ELSE NotParsed

\* s.find("{") and s.rfind("}"), 1-based; 0 where Python gives -1
Find(s, t) ==
    IF \E i \in 1..Len(s) : s[i] = t
    THEN CHOOSE i \in 1..Len(s) : s[i] = t /\ \A j \in 1..(i - 1) : s[j] # t
    ELSE 0

RFind(s, t) ==
    IF \E i \in 1..Len(s) : s[i] = t
    THEN CHOOSE i \in 1..Len(s) : s[i] = t /\ \A j \in (i + 1)..Len(s) : s[j] # t
    ELSE 0

NoError == [type |-> "none", message |-> <<>>]

\* raise ValueError("LLM did not return valid JSON.")
NoJsonError ==
    [type |-> "ValueError",
     message |-> <<"LLM", "did", "not", "return", "valid", "JSON.">>]

\* the JSONDecodeError of json.loads: its message tells what was expected and where
DecodeError ==
    [type |-> "JSONDecodeError", message |-> <<"Expecting", "value:", "line", "column", "char">>]

\* the error of a failed model.generate_content call
ApiError == [type |-> "APIError", message |-> <<"generate_content", "failed">>]

\* 'dict'.setdefault applied to a value that is no dict
AttributeError ==
    [type |-> "AttributeError", message |-> <<"object", "has", "no", "attribute", "setdefault">>]

\* RuntimeError("GOOGLE_API_KEY missing. ...")
KeyMissingError ==
    [type |-> "RuntimeError", message |-> <<"GOOGLE_API_KEY", "missing.">>]

Returned(v) == [raised |-> FALSE, error |-> NoError, value |-> v, attempts |-> <<>>]
Raised(e) == [raised |-> TRUE, error |-> e, value |-> NotParsed, attempts |-> <<>>]

\* _json_sanitize(s); attempts lists the texts handed to json.loads, in order
_json_sanitize(s) ==
    LET whole == JsonLoads(s)
        start == Find(s, LB)
        end == RFind(s, RB)
    IN  IF whole.ok THEN [Returned(whole) EXCEPT !.attempts = <<s>>]
        ELSE IF start # 0 /\ end # 0 /\ end > start
             THEN LET inner == SubSeq(s, start, end)
                  IN  IF JsonLoads(inner).ok
                      THEN [Returned(JsonLoads(inner)) EXCEPT !.attempts = <<s, inner>>]
                      ELSE [Raised(DecodeError) EXCEPT !.attempts = <<s, inner>>]
        ELSE [Raised(NoJsonError) EXCEPT !.attempts = <<s>>]

RECURSIVE SplitLines(_)
\* text.split("\n")
SplitLines(s) ==
    LET cut == Find(s, NL)
    IN  IF cut = 0 THEN <<s>>
        ELSE <<SubSeq(s, 1, cut - 1)>> \o SplitLines(SubSeq(s, cut + 1, Len(s)))

\* _parse_json_response: the text handed to json.loads; a leading fence drops the
\* first and the last line
FenceStripped(raw) ==
    LET text == StripText(raw)
        lns == SplitLines(text)
    IN  IF text # <<>> /\ text[1] = Fence /\ Len(lns) > 2
        THEN Join(SubSeq(lns, 2, Len(lns) - 1), NL)
        ELSE text

\* _parse_json_response(text): a text that does not parse gives {}
_parse_json_response(raw) ==
    IF JsonLoads(FenceStripped(raw)).ok THEN JsonLoads(FenceStripped(raw))
    ELSE [ok |-> TRUE, isDict |-> TRUE, dict |-> <<>>]

Objectives == <<"notes", "summary", "mcqs">>
ArticleObjectives == <<"summary", "notes", "mcqs">>

Sentinel == "insufficient information"

RECURSIVE JoinStrings(_, _)
\* sep.join(parts) of strings
JoinStrings(parts, sep) ==
    IF parts = <<>> THEN ""
    ELSE IF Len(parts) = 1 THEN parts[1]
    ELSE parts[1] \o sep \o JoinStrings(Tail(parts), sep)

\* generate_all: topic_str, of a topic given as a string or as a list of strings
TopicStr(topic) ==
    IF topic.list
    THEN IF topic.items # <<>> THEN JoinStrings(topic.items, ", ") ELSE "General Topic"
    ELSE IF topic.items[1] # "" THEN topic.items[1] ELSE "General Topic"

\* the five descriptive fields of a block
Meta(topic, objective, level, language, style) ==
    [topic |-> StrV(topic), objective |-> StrV(objective), level |-> StrV(level),
     language |-> StrV(language), style |-> StrV(style)]

\* f with the entries of g added or replaced
Merge(f, g) == [k \in (DOMAIN f) \cup (DOMAIN g) |-> IF k \in DOMAIN g THEN g[k] ELSE f[k]]

\* a scaffold whose summaries are empty strings
ScaffoldBlockBlank(objective, topic, level, language, style) ==
    Merge(Meta(topic, objective, level, language, style),
          IF objective = "mcqs" THEN [questions |-> ListV(<<>>)]
          ELSE [summary |-> StrV(""), key_points |-> ListV(<<>>)])

\* generate_all: one block of the scaffold returned when nothing was retrieved
ScaffoldBlock(objective, topic, level, language, style) ==
    Merge(Meta(topic, objective, level, language, style),
          CASE objective = "notes" ->
                 [summary |-> StrV(Sentinel), key_points |-> ListV(<<>>),
                  sections |-> ListV(<<>>), glossary |-> ListV(<<>>),
                  misconceptions |-> ListV(<<>>)]
            [] objective = "summary" ->
                 [summary |-> StrV(Sentinel), key_points |-> ListV(<<>>)]
            [] objective = "mcqs" -> [questions |-> ListV(<<>>)])

\* generate_all: blob.setdefault(key, value) for the five fields
Backfill(blob, topic, objective, level, language, style) ==
    Merge(Meta(topic, objective, level, language, style), blob)

\* article_generator: result[key] = value for the five fields
AddMetadata(blob, topic, objective, level, language, style) ==
    Merge(blob, Meta(topic, objective, level, language, style))

\* article_generator: the block returned by the except branch of _generate_<objective>
ArticleErrorBlock(objective, topic, level, language, style) ==
    Merge(Meta(topic, objective, level, language, style),
          CASE objective = "notes" ->
                 [summary |-> StrV("Error generating notes"), key_points |-> ListV(<<>>),
                  sections |-> ListV(<<>>), glossary |-> ListV(<<>>),
                  misconceptions |-> ListV(<<>>)]
            [] objective = "summary" ->
                 [summary |-> StrV("Error generating summary"), key_points |-> ListV(<<>>)]
            [] objective = "mcqs" -> [questions |-> ListV(<<>>)])

NoContent == "No content available - no contexts retrieved"

\* article_generator: one block of _create_empty_output
ArticleEmptyBlock(objective, topic, level, language, style) ==
    Merge(Meta(topic, objective, level, language, style),
          CASE objective = "notes" ->
                 [summary |-> StrV(NoContent), key_points |-> ListV(<<>>),
                  sections |-> ListV(<<>>), glossary |-> ListV(<<>>),
                  misconceptions |-> ListV(<<>>)]
            [] objective = "summary" ->
                 [summary |-> StrV(NoContent), key_points |-> ListV(<<>>)]
            [] objective = "mcqs" -> [questions |-> ListV(<<>>)])

\* the dict a generator returns, blocks keyed by objective
ResultOf(topic, level, language, style, blocks) ==
    [topic |-> topic, level |-> level, language |-> language, style |-> style,
     notes |-> blocks["notes"], summary |-> blocks["summary"], mcqs |-> blocks["mcqs"]]

NoBlocks == [o \in {} |-> <<>>]

NoResult == ResultOf("", "", "", "", [o \in {"notes", "summary", "mcqs"} |-> <<>>])

----------------------------------------------------------------------------
(* Inputs *)

SeqsUpTo(S, n) == UNION {[1..m -> S] : m \in 0..n}

\* a hit as the index returns it: the backend similarity score falls with the rank
MkHit(cid, li, r) == [id |-> cid, score |-> per_query_k - r, text |-> [i \in 1..li |-> "a"]]

MkList(ids, li) == [r \in 1..Len(ids) |-> MkHit(ids[r], li, r)]

MkLists(idLists) == [li \in 1..Len(idLists) |-> MkList(idLists[li], li)]

RECURSIVE Flatten(_)
Flatten(ss) == IF ss = <<>> THEN <<>> ELSE Head(ss) \o Flatten(Tail(ss))

\* ids are numbered in the order in which the scan first meets them; the fusion
\* treats ids as opaque keys, so every other input is a renaming of one of these
FirstMetOrder(idLists) ==
    LET s == Flatten(idLists)
    IN  \A i \in 1..Len(s) : \A c \in 1..(s[i] - 1) : \E j \in 1..(i - 1) : s[j] = c

RankedListInputs ==
    {MkLists(idLists) :
        idLists \in {x \in SeqsUpTo(SeqsUpTo(1..NumIds, MaxLen), MaxLists) :
                        FirstMetOrder(x)}}

FinalKInputs == (0 - 1)..MaxFinalK

\* a text of n characters, bare or wrapped in whitespace
Body(n) == [i \in 1..n |-> "a"]

HitTextInputs ==
    {NoText, <<>>, <<Space>>}
        \cup {Body(n) : n \in 1..MaxTextLen}
        \cup {<<Space>> \o Body(n) \o <<Space>> : n \in 1..MaxTextLen}

PackHitInputs ==
    {[i \in 1..Len(ts) |-> [id |-> i, score |-> 0, text |-> ts[i]]] :
        ts \in SeqsUpTo(HitTextInputs, MaxHits)}

\* the LLM texts tried for one objective
MSummary == Member("summary", StrV("s"))
MKeyPoints == Member("key_points", ListV(<<"p">>))
MQuestions == Member("questions", ListV(<<"q">>))

\* an object with every content field of the schemas
FullObject == <<LB, MSummary, MKeyPoints, MQuestions, RB>>

\* the same with topic and objective filled in by the model, in its own words
OwnMetaObject ==
    <<LB, Member("topic", StrV("other")), Member("objective", StrV("other")),
      MSummary, MKeyPoints, MQuestions, RB>>

LlmTexts ==
    {<<>>,                                          \* resp.text is None or blank
     <<LB, RB>>,                                    \* {}
     FullObject,
     OwnMetaObject,
     <<Word>> \o FullObject \o <<Word, NL>>,        \* prose around the object
     <<Word>>,                                      \* prose only
     <<Num>>,                                       \* valid JSON, not an object
     <<Fence, NL>> \o FullObject \o <<NL, Fence>>,  \* a fenced code block
     <<LB, RB, Word, LB, RB>>}                      \* two objects with prose between

\* every text of at most MaxRaw tokens, for the guard alone
RawInputs == SeqsUpTo({LB, RB, MSummary, Word, Num}, MaxRaw)

TopicInputs == {StrV("t"), StrV(""), ListV(<<"t", "u">>), ListV(<<>>)}

\* what retrieve_from_queries returned to generate_all
GenHitInputs ==
    {[i \in 1..Len(ts) |-> [id |-> i, score |-> 0, text |-> ts[i]]] :
        ts \in SeqsUpTo({NoText, Body(1)}, GenMaxHits)}

\* the contexts main_article hands to generate_article_content
ContextInputs == SeqsUpTo({Body(1)}, GenMaxHits)

GenIdleRec ==
    [fn |-> "none", key |-> FALSE, topic |-> StrV(""), level |-> "", language |-> "",
     style |-> "", hits |-> <<>>, contexts |-> <<>>, pc |-> "idle", next |-> 1,
     calls |-> <<>>, outcomes |-> <<>>, blocks |-> NoBlocks, result |-> NoResult,
     error |-> NoError]

JsIdleRec == [pc |-> "idle", raw |-> <<>>, objective |-> "", out |-> Returned(NotParsed)]

GenIdle ==
    /\ gen = GenIdleRec
    /\ js = JsIdleRec

\* the sources of a combined call in the order the loops take them: the videos, the
\* articles, the files
SourceList(nv, na, nf) ==
    [i \in 1..nv |-> "video"] \o [i \in 1..na |-> "article"] \o [i \in 1..nf |-> "file"]

CombinedInputs ==
    {SourceList(c[1], c[2], c[3]) :
        c \in {x \in (0..MaxSources) \X (0..MaxSources) \X (0..MaxSources) :
                  x[1] + x[2] + x[3] <= MaxSources}}

\* what extracting and chunking one source comes to
SourceOutcomes == {"ok", "empty", "extract_fails", "chunk_fails"}

\* the stages after the collection, in the order of the code
Stages == <<"embed", "ensure_index", "upsert", "query_expansion", "retrieval", "generation">>

CombIdleRec ==
    [pc |-> "idle", sources |-> <<>>, i |-> 1, all_chunks |-> <<>>, processed |-> <<>>,
     stages |-> <<>>, failed |-> "", llm |-> <<>>, upserted |-> <<>>,
     returned |-> FALSE, total_chunks |-> 0, metadata |-> <<>>,
     style |-> "", final_k |-> 0, passed |-> <<>>]

CombIdle == comb = CombIdleRec

\* the style values of a combined call: the three of the table, and others
StyleInputs == {"concise", "detailed", "exam-prep", "Concise", ""}

NoCount == 0 - 1

UpsIdleRec ==
    [pc |-> "idle", n |-> 0, i |-> 0, attempted |-> <<>>, batches |-> <<>>, stored |-> {},
     error |-> [type |-> "none", message |-> <<>>, committed |-> NoCount]]

UpsIdle == ups = UpsIdleRec

RqIdleRec ==
    [pc |-> "idle", queries |-> <<>>, final_k |-> 0, embed_calls |-> <<>>,
     index_calls |-> <<>>, out |-> <<>>]

RqIdle == rq = RqIdleRec

PlIdleRec == [pc |-> "idle", raw |-> <<>>, subs |-> <<>>]

PlIdle == pl = PlIdleRec

QgIdleRec ==
    [pc |-> "idle", key |-> FALSE, plan |-> <<>>, n |-> 0, text |-> <<>>, llm |-> 0,
     out |-> <<>>, error |-> ""]

QgIdle == qg = QgIdleRec

NspIdleRec == [pc |-> "idle", batches |-> <<>>, ns |-> <<>>]

NspIdle == nsp = NspIdleRec

TpIdleRec ==
    [pc |-> "idle", subtopics |-> <<>>, i |-> 1, content |-> <<>>, llm |-> <<>>,
     outcomes |-> <<>>, error |-> ""]

TpIdle == tp = TpIdleRec

ExtIdle == UpsIdle /\ RqIdle /\ PlIdle /\ QgIdle /\ NspIdle /\ TpIdle

\* the same texts in the same order under other ids and scores
Relabelled(hs) ==
    {[i \in 1..Len(hs) |-> [id |-> hs[i].id + k * MaxHits, score |-> k + i, text |-> hs[i].text]] :
        k \in 1..MaxRelabel}

FuseIdle ==
    /\ ranked_lists = <<>>
    /\ fused = <<>>
    /\ fusedSwapped = <<>>
    /\ hits = <<>>
    /\ final_k = 0
    /\ fpc = "idle"

PackIdle ==
    /\ pk_hits = <<>>
    /\ max_context_chars = 0
    /\ lines = <<>>
    /\ context_block = <<>>
    /\ ppc = "idle"
    /\ pk_other = <<>>
    /\ context_other = <<>>

----------------------------------------------------------------------------
(* Ingestion pipelines over the shared index: main_article.py, main_file_upload.py, *)
(* main_combined.py                                                                 *)

Runs == {"run1", "run2"}

BatchSize == 100     \* batch_size = 100
TOP_K == 8           \* cfg.TOP_K
FileFinalK == 8      \* main_file_upload: generate_all(..., final_k=8)

\* hashlib.md5(text.encode()).hexdigest()[:8]: a fixed function of the text hashed;
\* two of the few texts of the model never collide
Md5Hex8(text) == <<"md5", text>>

\* urlparse(url).netloc.replace("www.", ""): a fixed function of the url
Netloc(url) == <<"netloc", url>>

\* datetime.now().strftime("%Y%m%d_%H%M%S"): the clock cut to whole seconds
Timestamp(now) == now \div TicksPerSecond

Digits == <<"0", "1", "2", "3", "4", "5", "6", "7", "8", "9">>

\* str(n) for a count below ten
Str(n) == <<Digits[n + 1]>>

\* ",".join(urls) of urls given as character sequences
JoinUrls(urls) == Join(urls, ",")

ArticleSources ==
    {[kind |-> "article", name |-> <<"u">>, videos |-> <<>>, articles |-> <<>>, files |-> <<>>],
     [kind |-> "article", name |-> <<"v">>, videos |-> <<>>, articles |-> <<>>, files |-> <<>>]}

FileSources ==
    {[kind |-> "file", name |-> <<"f">>, videos |-> <<>>, articles |-> <<>>, files |-> <<>>]}

CombinedSources ==
    {[kind |-> "combined", name |-> <<>>,
      videos |-> <<<<"u">>>>, articles |-> <<<<"v">>>>, files |-> <<<<"f">>>>]}

SourceInputs == ArticleSources \cup FileSources \cup CombinedSources

NoSource == [kind |-> "none", name |-> <<>>, videos |-> <<>>, articles |-> <<>>, files |-> <<>>]

NoNamespace == <<"none">>

\* main_article: f"article:{domain}:{url_hash}"
ArticleNamespace(url) == <<"article", Netloc(url), Md5Hex8(url)>>

\* main_file_upload: f"file:{file_hash}:{timestamp}"
FileNamespace(filename, now) == <<"file", Md5Hex8(filename), Timestamp(now)>>

\* main_combined: the hash of the joined video urls, the joined article urls and the
\* number of files
CombinedNamespace(videos, articles, files) ==
    <<"combined", Md5Hex8(JoinUrls(videos) \o JoinUrls(articles) \o Str(Len(files)))>>

Namespace(src, now) ==
    CASE src.kind = "article" -> ArticleNamespace(src.name)
      [] src.kind = "file" -> FileNamespace(src.name, now)
      [] src.kind = "combined" -> CombinedNamespace(src.videos, src.articles, src.files)

\* number of chunks the chunker makes of a source's text, by version of that text
ChunkCount(version) == IF version = 1 THEN BatchSize + 1 ELSE SmallDoc

\* the text of chunk i (0-based) of a source
ChunkText(src, version, i) == <<src.kind, src.name, version, i>>

\* the embedder: a fixed function of the text
EmbedChunk(text) == (7 * text[4] + 3 * text[3]) % EmbRange
EmbedQuery(q) == (5 * q) % EmbRange

\* an id that also depends on the time of the upsert
IdOfTimed(ns, i) == <<i + 1000 * (clock + 1), ns>>

\* f"{namespace}_{i}": the pair of the namespace and the ordinal, ordinal first
IdOf(ns, i) == <<i, ns>>

\* the vectors a run prepares: one per chunk, in order
VectorsToUpsert(src, version, ns) ==
    [j \in 1..ChunkCount(version) |->
        [id |-> IdOf(ns, j - 1),
         text |-> ChunkText(src, version, j - 1),
         values |-> EmbedChunk(ChunkText(src, version, j - 1))]]

NsContent(idx, ns) == IF ns \in DOMAIN idx THEN idx[ns] ELSE <<>>

\* the vectors of a batch stored: a vector replaces the one stored under the same id
\* (the ids within one batch are distinct)
StoreAll(content, batch) ==
    LET ids == {batch[j].id : j \in 1..Len(batch)}
    IN  [id \in (DOMAIN content) \cup ids |->
            IF id \in ids
            THEN LET j == CHOOSE k \in 1..Len(batch) : batch[k].id = id
                 IN  [text |-> batch[j].text, values |-> batch[j].values]
            ELSE content[id]]

\* index.upsert(vectors=batch, namespace=namespace): only that namespace changes
IndexUpsert(idx, ns, batch) ==
    Extend(idx, ns, StoreAll(NsContent(idx, ns), batch))

Distance(a, b) == IF a >= b THEN a - b ELSE b - a

RECURSIVE InIdOrder(_)
\* a set of ids of one namespace as a sequence, by ordinal
InIdOrder(ids) ==
    IF ids = {} THEN <<>>
    ELSE LET first == CHOOSE x \in ids : \A y \in ids : x[1] <= y[1]
         IN  <<first>> \o InIdOrder(ids \ {first})

\* the first k elements of a sequence
Prefix(seq, k) == SubSeq(seq, 1, Min(k, Len(seq)))

RECURSIVE NearestFrom(_, _, _, _)
RECURSIVE NearestAfter(_, _, _, _, _)
\* the ids of a namespace by increasing distance to the query vector, nearest first
\* (equally near ones by ordinal), until k are found
NearestFrom(content, qv, d, k) ==
    IF k <= 0 \/ d >= EmbRange THEN <<>>
    ELSE NearestAfter(
             Prefix(InIdOrder({id \in DOMAIN content :
                                  Distance(content[id].values, qv) = d}), k),
             content, qv, d, k)

NearestAfter(take, content, qv, d, k) ==
    take \o NearestFrom(content, qv, d + 1, k - Len(take))

\* the matches of a query as the index returns them
Matches(ids, content, qv) ==
    [j \in 1..Len(ids) |->
        [id |-> ids[j],
         score |-> EmbRange - Distance(content[ids[j]].values, qv),
         text |-> content[ids[j]].text]]

\* index.query(vector, top_k, namespace, include_metadata=True): up to top_k nearest
\* vectors of that namespace only, nearest first
IndexQuery(idx, ns, qv, top_k) ==
    Matches(NearestFrom(NsContent(idx, ns), qv, 0, top_k), NsContent(idx, ns), qv)

RECURSIVE AppendNew(_, _, _)
\* for match in matches: if text and text not in all_contexts: all_contexts.append(text)
AppendNew(all_contexts, matches, j) ==
    IF j > Len(matches) THEN all_contexts
    ELSE LET text == matches[j].text
         IN  AppendNew(IF text # <<>> /\ \A m \in 1..Len(all_contexts) : all_contexts[m] # text
                       THEN Append(all_contexts, text) ELSE all_contexts,
                       matches, j + 1)

\* the queries generate_queries_from_plan returned for a run
QueryInputs == {<<1, 2>>}

IdleRun ==
    [pc |-> "idle", src |-> NoSource, version |-> 0, ns |-> NoNamespace,
     queries |-> <<>>, next |-> 0, qi |-> 1, qok |-> <<>>,
     ranked |-> <<>>, contexts |-> <<>>, result |-> <<>>, returned |-> {},
     overlapped |-> FALSE]

PipeIdle ==
    /\ run = [r \in Runs |-> IdleRun]
    /\ index = <<>>
    /\ clock = 0
    /\ written = {}
    /\ oplog = {}

----------------------------------------------------------------------------
(* Retrieval: the fusion applied to the lists the queries returned *)

InitFuse ==
    /\ ranked_lists \in RankedListInputs
    /\ fused = <<>>
    /\ fusedSwapped = <<>>
    /\ hits = <<>>
    /\ final_k = 0
    /\ fpc = "start"
    /\ PackIdle
    /\ PipeIdle
    /\ ExtIdle
    /\ GenIdle
    /\ CombIdle

\* retrieve_from_queries, given what the per-query searches returned
Retrieve ==
    /\ fpc = "start"
    /\ \E k \in FinalKInputs :
        /\ final_k' = k
        /\ IF ranked_lists = <<>>
           THEN /\ hits' = <<>>
                /\ fused' = fused
           ELSE /\ fused' = _rrf_fuse(ranked_lists)
                /\ hits' = FuseAndTruncate(ranked_lists, k)
    /\ fpc' = "retrieved"
    /\ UNCHANGED <<ranked_lists, fusedSwapped>>
    /\ UNCHANGED packVars
    /\ UNCHANGED <<pipeVars, genVars, combVars, extVars>>

\* _rrf_fuse([L1, L2]) and _rrf_fuse([L2, L1])
FusePair ==
    /\ fpc = "start"
    /\ Len(ranked_lists) = 2
    /\ fused' = _rrf_fuse(ranked_lists)
    /\ fusedSwapped' = _rrf_fuse(<<ranked_lists[2], ranked_lists[1]>>)
    /\ fpc' = "fusedpair"
    /\ UNCHANGED <<ranked_lists, hits, final_k>>
    /\ UNCHANGED packVars
    /\ UNCHANGED <<pipeVars, genVars, combVars, extVars>>

NextFuse == Retrieve \/ FusePair

SpecFuse == InitFuse /\ [][NextFuse]_vars

----------------------------------------------------------------------------
(* Context packing applied to bounded inputs *)

InitPack ==
    /\ pk_hits \in PackHitInputs
    /\ max_context_chars \in 0..MaxBudget
    /\ lines = <<>>
    /\ context_block = <<>>
    /\ ppc = "start"
    /\ pk_other \in Relabelled(pk_hits)
    /\ context_other = <<>>
    /\ FuseIdle
    /\ PipeIdle
    /\ ExtIdle
    /\ GenIdle
    /\ CombIdle

Pack ==
    /\ ppc = "start"
    /\ lines' = PackLines(pk_hits, max_context_chars)
    /\ context_block' = _pack_context(pk_hits, max_context_chars)
    /\ ppc' = "packed"
    /\ context_other' = _pack_context(pk_other, max_context_chars)
    /\ UNCHANGED <<pk_hits, max_context_chars, pk_other>>
    /\ UNCHANGED fuseVars
    /\ UNCHANGED <<pipeVars, genVars, combVars, extVars>>

NextPack == Pack

SpecPack == InitPack /\ [][NextPack]_vars

----------------------------------------------------------------------------
(* Retrieval with full-length lists: two tracked ids among ids met only once *)

FillerId(li, r) == 100 + 10 * li + r
TrackedA == FillerId(0, 1)
TrackedB == FillerId(0, 2)

\* list li has TrackedA at rank ra[li] (0: absent), TrackedB at rank rb in list lb only
RankList(li, ra, lb, rb) ==
    [r \in 1..per_query_k |->
        MkHit(IF ra[li] = r THEN TrackedA
              ELSE IF li = lb /\ r = rb THEN TrackedB
              ELSE FillerId(li, r), li, r)]

RankInputs ==
    UNION {
        {[li \in 1..n |-> RankList(li, x.ra, x.lb, x.rb)] :
            x \in {y \in [ra : [1..n -> 0..per_query_k], lb : 1..n, rb : 1..per_query_k] :
                      y.ra[y.lb] # y.rb}} :
        n \in 2..MaxLists}

InitRank ==
    /\ ranked_lists \in RankInputs
    /\ fused = <<>>
    /\ fusedSwapped = <<>>
    /\ hits = <<>>
    /\ final_k = 0
    /\ fpc = "start"
    /\ PackIdle
    /\ PipeIdle
    /\ ExtIdle
    /\ GenIdle
    /\ CombIdle

SpecRank == InitRank /\ [][NextFuse]_vars

----------------------------------------------------------------------------
(* Properties of the fusion, stated from the inputs *)

\* the places <<list, rank>> at which an id occurs
Occurrences(lists, cid) ==
    {p \in UNION {{<<li, r>> : r \in 1..Len(lists[li])} : li \in 1..Len(lists)} :
        lists[p[1]][p[2]].id = cid}

IdsIn(lists) ==
    UNION {{lists[li][r].id : r \in 1..Len(lists[li])} : li \in 1..Len(lists)}

RECURSIVE ReciprocalSum(_)
\* the sum of 1 / (60 + r) over a set of places, as a multiple of 1 / RrfScale
ReciprocalSum(places) ==
    IF places = {} THEN 0
    ELSE LET p == CHOOSE q \in places : TRUE
         IN  RrfScale \div (60 + p[2]) + ReciprocalSum(places \ {p})

\* 1 / (60 + r) is represented exactly for every rank that occurs
ExactRanks(lists) ==
    \A li \in 1..Len(lists) : \A r \in 1..Len(lists[li]) :
        (60 + r) * (RrfScale \div (60 + r)) = RrfScale

IdsOf(seq) == {seq[i].id : i \in 1..Len(seq)}

NoDuplicateIds(seq) == \A i, j \in 1..Len(seq) : seq[i].id = seq[j].id => i = j

PosOf(seq, cid) == CHOOSE i \in 1..Len(seq) : seq[i].id = cid

IdScores(seq) == [i \in 1..Len(seq) |-> <<seq[i].id, seq[i].score>>]

FuseDone == fpc \in {"retrieved", "fusedpair"} /\ ranked_lists # <<>>

PlaceBefore(p, q) == p[1] < q[1] \/ (p[1] = q[1] /\ p[2] < q[2])

\* the first place at which an id is met when the lists are scanned in order
FirstSeen(lists, cid) ==
    CHOOSE p \in Occurrences(lists, cid) :
        \A q \in Occurrences(lists, cid) : q = p \/ PlaceBefore(p, q)

ListsContaining(lists, cid) ==
    Cardinality({li \in 1..Len(lists) : \E r \in 1..Len(lists[li]) : lists[li][r].id = cid})

NoRepeatInList(lists) ==
    \A li \in 1..Len(lists) : NoDuplicateIds(lists[li]) /\ Len(lists[li]) <= per_query_k

\* C1 as stated: _rrf_fuse([L1, L2]) and _rrf_fuse([L2, L1]) are the same sequence of
\* ids with the same scores, ties included.
C1_SameSequence ==
    fpc = "fusedpair" => IdScores(fused) = IdScores(fusedSwapped)

\* C1 amended: for two ranked lists in which no id repeats within a list,
\* _rrf_fuse([L1, L2]) and _rrf_fuse([L2, L1]) hold the same ids with the same fused
\* score for every id, and any two ids with different fused scores are in the same
\* order in both; only ids with equal fused scores may change places.
C1_SameScoresOrderUpToTies ==
    (fpc = "fusedpair" /\ NoRepeatInList(ranked_lists)) =>
        /\ Len(fused) = Len(fusedSwapped)
        /\ {IdScores(fused)[i] : i \in 1..Len(fused)}
             = {IdScores(fusedSwapped)[i] : i \in 1..Len(fusedSwapped)}
        /\ NoDuplicateIds(fused) /\ NoDuplicateIds(fusedSwapped)
        /\ \A i, j \in 1..Len(fused) :
              (i < j /\ fused[i].score # fused[j].score)
                 => PosOf(fusedSwapped, fused[i].id) < PosOf(fusedSwapped, fused[j].id)

\* C1 witness: two lists that share an id and also have tied ids, fused both ways,
\* with the two results in a different order
C1_Witness ==
    /\ fpc = "fusedpair"
    /\ NoRepeatInList(ranked_lists)
    /\ IdsIn(<<ranked_lists[1]>>) \cap IdsIn(<<ranked_lists[2]>>) # {}
    /\ IdScores(fused) # IdScores(fusedSwapped)
    /\ \E i \in 1..Len(fused) : ListsContaining(ranked_lists, fused[i].id) = 2

\* C2: the fused score of every id is the sum of 1 / (60 + r) over every list and
\* every position r at which the id occurs, and of nothing else; the fused result
\* holds exactly the ids of the lists, each once.
C2_ScoreIsReciprocalRankSum ==
    FuseDone =>
        /\ ExactRanks(ranked_lists)
        /\ IdsOf(fused) = IdsIn(ranked_lists)
        /\ NoDuplicateIds(fused)
        /\ \A i \in 1..Len(fused) :
              fused[i].score = ReciprocalSum(Occurrences(ranked_lists, fused[i].id))

\* C2 witness: an id that occurs twice in one list and again in another list
C2_Witness ==
    /\ FuseDone
    /\ \E i \in 1..Len(fused) :
          /\ Cardinality(Occurrences(ranked_lists, fused[i].id)) >= 3
          /\ ListsContaining(ranked_lists, fused[i].id) = 2
          /\ fused[i].score > 0

\* C3: for final_k >= 0 retrieve_from_queries returns the first
\* min(final_k, number of distinct ids) entries of the fused ranking: no id twice,
\* scores non-increasing, and no id left out scores strictly higher than a returned id.
C3_TopKOfFusedRanking ==
    (fpc = "retrieved" /\ final_k >= 0) =>
        LET n == Min(final_k, Cardinality(IdsIn(ranked_lists)))
        IN  /\ Len(hits) = n
            /\ hits = SubSeq(fused, 1, n)
            /\ NoDuplicateIds(hits)
            /\ IdsOf(hits) \subseteq IdsIn(ranked_lists)
            /\ \A i \in 1..Len(hits) :
                  hits[i].score = ReciprocalSum(Occurrences(ranked_lists, hits[i].id))
            /\ \A i, j \in 1..Len(hits) : i < j => hits[i].score >= hits[j].score
            /\ \A cid \in IdsIn(ranked_lists) \ IdsOf(hits) : \A i \in 1..Len(hits) :
                  ReciprocalSum(Occurrences(ranked_lists, cid)) <= hits[i].score

\* C3 witness: a call that truncates, leaving out an id with a lower score
C3_Witness ==
    /\ fpc = "retrieved"
    /\ final_k >= 2
    /\ Len(hits) = final_k
    /\ Cardinality(IdsIn(ranked_lists)) > final_k
    /\ hits[1].score > hits[2].score
    /\ \E cid \in IdsIn(ranked_lists) \ IdsOf(hits) :
          ReciprocalSum(Occurrences(ranked_lists, cid)) < hits[Len(hits)].score

\* C4: ids with equal fused scores appear in the order in which they were first met
\* while scanning the lists in the order given, list by list and rank by rank.
C4_TiesInDiscoveryOrder ==
    FuseDone =>
        \A i, j \in 1..Len(fused) :
            (i < j /\ fused[i].score = fused[j].score)
               => PlaceBefore(FirstSeen(ranked_lists, fused[i].id),
                              FirstSeen(ranked_lists, fused[j].id))

\* C4 witness: two tied ids from different lists, placed behind an id with a higher
\* score that was met between them
C4_Witness ==
    /\ FuseDone
    /\ \E i, j \in 1..Len(fused) :
          /\ 1 < i /\ i < j
          /\ fused[i].score = fused[j].score
          /\ fused[1].score > fused[i].score
          /\ FirstSeen(ranked_lists, fused[i].id)[1] # FirstSeen(ranked_lists, fused[j].id)[1]
          /\ PlaceBefore(FirstSeen(ranked_lists, fused[i].id),
                         FirstSeen(ranked_lists, fused[1].id))
          /\ PlaceBefore(FirstSeen(ranked_lists, fused[1].id),
                         FirstSeen(ranked_lists, fused[j].id))

\* C5: with k = 60 and lists of at most 5 hits without repeated ids, every id that
\* occurs in two or more lists has a strictly higher fused score than every id that
\* occurs in exactly one list, and stands before it in the fused result.
C5_MultiListOutranksSingle ==
    (FuseDone /\ NoRepeatInList(ranked_lists)) =>
        \A i, j \in 1..Len(fused) :
            (/\ ListsContaining(ranked_lists, fused[i].id) >= 2
             /\ ListsContaining(ranked_lists, fused[j].id) = 1)
               => (fused[i].score > fused[j].score /\ i < j)

\* C5 witness: an id at the last rank of exactly two lists, another id at rank 1 of
\* one list only
C5_Witness ==
    /\ FuseDone
    /\ NoRepeatInList(ranked_lists)
    /\ Cardinality(Occurrences(ranked_lists, TrackedA)) = 2
    /\ \A p \in Occurrences(ranked_lists, TrackedA) : p[2] = per_query_k
    /\ \E p \in Occurrences(ranked_lists, TrackedB) : p[2] = 1
    /\ PosOf(fused, TrackedA) < PosOf(fused, TrackedB)

----------------------------------------------------------------------------
(* Properties of the context packer, stated from the inputs *)

NonSpaceAt(t) == {i \in 1..Len(t) : ~IsSpace(t[i])}

SetMin(S) == CHOOSE x \in S : \A y \in S : x <= y
SetMax(S) == CHOOSE x \in S : \A y \in S : x >= y

\* a hit text without its leading and trailing whitespace; empty when there is none
Stripped(t) ==
    IF t = NoText \/ NonSpaceAt(t) = {} THEN <<>>
    ELSE SubSeq(t, SetMin(NonSpaceAt(t)), SetMax(NonSpaceAt(t)))

\* the hit texts that are non-empty after stripping, in the given order
NonEmptyTexts(hs) ==
    SelectSeq([i \in 1..Len(hs) |-> Stripped(hs[i].text)], LAMBDA t : t # <<>>)

RECURSIVE SizeUpTo(_, _)
\* size of the first j snippets: text length plus one each
SizeUpTo(ts, j) == IF j = 0 THEN 0 ELSE Len(ts[j]) + 1 + SizeUpTo(ts, j - 1)

\* the longest prefix in which every text but the first fits the budget
FittingPrefix(ts, budget) ==
    IF ts = <<>> THEN 0
    ELSE SetMax({m \in 1..Len(ts) : \A j \in 2..m : SizeUpTo(ts, j) <= budget})

\* C10: _pack_context includes exactly a prefix of the non-empty (stripped) hit texts,
\* in order: the first always, each later one iff all earlier ones were included and
\* the running total plus its size stays within max_context_chars; nothing after the
\* first text that does not fit.
C10_PackedIsFittingPrefix ==
    ppc = "packed" =>
        LET ts == NonEmptyTexts(pk_hits)
            n == FittingPrefix(ts, max_context_chars)
        IN  /\ lines = <<ContextHeader>> \o [i \in 1..n |-> ts[i] \o <<Newline>>]
            /\ (ts # <<>> => Len(lines) >= 2)

\* C10 witness: the second text does not fit, the third would have fitted, and only
\* the first is included
C10_Witness ==
    /\ ppc = "packed"
    /\ LET ts == NonEmptyTexts(pk_hits)
       IN  /\ Len(ts) = 3
           /\ Len(ts[1]) + 1 + Len(ts[2]) + 1 > max_context_chars
           /\ Len(ts[1]) + 1 + Len(ts[3]) + 1 <= max_context_chars
           /\ Len(lines) = 2
           /\ \E i \in 1..Len(pk_hits) : pk_hits[i].text # Stripped(pk_hits[i].text)

\* the first-snippet rule at work: a first text larger than the whole budget is included
C10_FirstOverBudget ==
    /\ ppc = "packed"
    /\ max_context_chars <= 1
    /\ Len(lines) = 2
    /\ Len(NonEmptyTexts(pk_hits)) >= 2
    /\ Stripped(pk_hits[1].text) = <<>>

----------------------------------------------------------------------------
(* Pipeline runs against the shared index *)

Other(r) == CHOOSE o \in Runs : o # r

InFlight(r) == run[r].pc \in {"upsert", "query"}

\* final_k of the retrieval of a run of generate_all
RunFinalK(src) == IF src.kind = "file" THEN FileFinalK ELSE TOP_K

\* the namespace argument of a write goes to the default namespace
UpsertNamespaceDefault(r) == NoNamespace

\* index.upsert(vectors=batch, namespace=namespace)
UpsertNamespace(r) == run[r].ns

\* the namespace argument of a query derived again at the time of the query
QueryNamespaceRederived(r) == Namespace(run[r].src, clock)

\* index.query(..., namespace=namespace) / pinecone_query(namespace=namespace)
QueryNamespace(r) == run[r].ns

\* a pipeline call up to its namespace: the source text is extracted, chunked and
\* embedded, the queries stand for the ones the plan yields, the namespace is derived
Start(r) ==
    /\ run[r].pc = "idle"
    /\ r = "run2" => run["run1"].pc # "idle"   \* the runs are alike: run1 names the first
    /\ \E src \in SourceInputs, version \in 1..2, qs \in QueryInputs :
          run' = [run EXCEPT ![r] =
                    [@ EXCEPT !.pc = "upsert", !.src = src, !.version = version,
                              !.queries = qs, !.ns = Namespace(src, clock)]]
    /\ UNCHANGED <<index, clock, written, oplog>>
    /\ UNCHANGED <<fuseVars, packVars, genVars, combVars, extVars>>

\* one turn of the batch loop: for i in range(0, len(vectors_to_upsert), batch_size)
UpsertBatch(r) ==
    /\ run[r].pc = "upsert"
    /\ LET vectors == VectorsToUpsert(run[r].src, run[r].version, run[r].ns)
           batch == SubSeq(vectors, run[r].next + 1,
                           Min(run[r].next + BatchSize, Len(vectors)))
           ns == UpsertNamespace(r)
       IN  /\ index' = IndexUpsert(index, ns, batch)
           /\ written' = written \cup
                 {[ns |-> ns, idns |-> run[r].ns, src |-> run[r].src,
                   version |-> run[r].version,
                   from |-> run[r].next + 1, to |-> run[r].next + Len(batch)]}
           /\ oplog' = oplog \cup {[run |-> r, op |-> "upsert", ns |-> ns]}
           /\ run' = [run EXCEPT ![r] =
                        [@ EXCEPT !.next = @ + BatchSize,
                                  !.pc = IF run[r].next + BatchSize >= Len(vectors)
                                         THEN "query" ELSE "upsert",
                                  !.overlapped = @ \/ InFlight(Other(r))]]
    /\ UNCHANGED clock
    /\ UNCHANGED <<fuseVars, packVars, genVars, combVars, extVars>>

\* main_article: one turn of `for query in queries`, the query answered
ArticleQuery(r) ==
    /\ run[r].pc = "query"
    /\ run[r].src.kind = "article"
    /\ LET q == run[r].queries[run[r].qi]
           ns == QueryNamespace(r)
           matches == IndexQuery(index, ns, EmbedQuery(q), TOP_K)
           all_contexts == AppendNew(run[r].contexts, matches, 1)
           last == run[r].qi = Len(run[r].queries)
       IN  /\ oplog' = oplog \cup {[run |-> r, op |-> "query", ns |-> ns]}
           /\ run' = [run EXCEPT ![r] =
                        [@ EXCEPT !.contexts = all_contexts,
                                  !.qi = @ + 1,
                                  !.qok = Append(@, TRUE),
                                  !.returned = @ \cup
                                      {<<matches[j].id, matches[j].text>> : j \in 1..Len(matches)},
                                  !.result = IF last THEN SliceTo(all_contexts, TOP_K * 2) ELSE @,
                                  !.pc = IF last THEN "done" ELSE "query",
                                  !.overlapped = @ \/ InFlight(Other(r))]]
    /\ UNCHANGED <<index, clock, written>>
    /\ UNCHANGED <<fuseVars, packVars, genVars, combVars, extVars>>

\* main_article: one turn of `for query in queries`, the query raising: logged, skipped
ArticleQueryFails(r) ==
    /\ run[r].pc = "query"
    /\ run[r].src.kind = "article"
    /\ LET ns == QueryNamespace(r)
           last == run[r].qi = Len(run[r].queries)
       IN  /\ oplog' = oplog \cup {[run |-> r, op |-> "query", ns |-> ns]}
           /\ run' = [run EXCEPT ![r] =
                        [@ EXCEPT !.qi = @ + 1,
                                  !.qok = Append(@, FALSE),
                                  !.result = IF last THEN SliceTo(run[r].contexts, TOP_K * 2) ELSE @,
                                  !.pc = IF last THEN "done" ELSE "query",
                                  !.overlapped = @ \/ InFlight(Other(r))]]
    /\ UNCHANGED <<index, clock, written>>
    /\ UNCHANGED <<fuseVars, packVars, genVars, combVars, extVars>>

\* retrieve_from_queries: one turn of `for qv in qvecs`; after the last one the lists
\* are fused and cut to final_k
RetrieverQuery(r) ==
    /\ run[r].pc = "query"
    /\ run[r].src.kind \in {"file", "combined"}
    /\ LET q == run[r].queries[run[r].qi]
           ns == QueryNamespace(r)
           found == IndexQuery(index, ns, EmbedQuery(q), per_query_k)
           lists == Append(run[r].ranked, found)
           last == run[r].qi = Len(run[r].queries)
       IN  /\ oplog' = oplog \cup {[run |-> r, op |-> "query", ns |-> ns]}
           /\ run' = [run EXCEPT ![r] =
                        [@ EXCEPT !.ranked = lists,
                                  !.qi = @ + 1,
                                  !.qok = Append(@, TRUE),
                                  !.returned = @ \cup
                                      {<<found[j].id, found[j].text>> : j \in 1..Len(found)},
                                  !.result = IF last
                                             THEN FuseAndTruncate(lists, RunFinalK(run[r].src))
                                             ELSE @,
                                  !.pc = IF last THEN "done" ELSE "query",
                                  !.overlapped = @ \/ InFlight(Other(r))]]
    /\ UNCHANGED <<index, clock, written>>
    /\ UNCHANGED <<fuseVars, packVars, genVars, combVars, extVars>>

\* time passes; only a call that has not derived its namespace yet reads the clock
Tick ==
    /\ clock < MaxClock
    /\ \E r \in Runs : run[r].pc = "idle"
    /\ clock' = clock + 1
    /\ UNCHANGED <<run, index, written, oplog>>
    /\ UNCHANGED <<fuseVars, packVars, genVars, combVars, extVars>>

Init ==
    /\ PipeIdle
    /\ ExtIdle
    /\ GenIdle
    /\ CombIdle
    /\ FuseIdle
    /\ PackIdle

Next ==
    \/ \E r \in Runs : Start(r)
    \/ \E r \in Runs : UpsertBatch(r)
    \/ \E r \in Runs : ArticleQuery(r)
    \/ \E r \in Runs : ArticleQueryFails(r)
    \/ \E r \in Runs : RetrieverQuery(r)
    \/ Tick

Spec == Init /\ [][Next]_vars

----------------------------------------------------------------------------
(* Properties of the pipelines and the shared index *)

\* the <<id, text>> pairs an upsert call of the history sent
SentBy(w) ==
    {<<IdOf(w.idns, j - 1), ChunkText(w.src, w.version, j - 1)>> : j \in w.from..w.to}

\* every <<id, text>> ever upserted under a namespace
WrittenUnder(ns) == UNION {SentBy(w) : w \in {x \in written : x.ns = ns}}

\* every id ever upserted under another namespace
IdsWrittenElsewhere(ns) ==
    UNION {{p[1] : p \in SentBy(w)} : w \in {x \in written : x.ns # ns}}

Started(r) == run[r].pc # "idle"

\* C6: a query issued with namespace A returns only ids (with their texts) that were
\* upserted under A, never an id written under another namespace, and every index
\* write and query of one run uses that run's single namespace.
C6_NamespaceIsolation ==
    /\ \A r \in Runs :
          /\ run[r].returned \subseteq WrittenUnder(run[r].ns)
          /\ {p[1] : p \in run[r].returned} \cap IdsWrittenElsewhere(run[r].ns) = {}
    /\ \A e \in oplog : e.ns = run[e.run].ns

\* C6 witness: two finished runs with different namespaces, both of which wrote and
\* both of which got hits back
C6_Witness ==
    /\ \A r \in Runs : run[r].pc = "done" /\ run[r].returned # {}
    /\ run["run1"].ns # run["run2"].ns
    /\ run["run1"].src.kind = "article"
    /\ run["run2"].src.kind # "article"
    /\ \A r \in Runs : \E e \in oplog : e.run = r /\ e.op = "query"

\* the content of a namespace after one run alone has written all its vectors
SoloContent(r) ==
    StoreAll(<<>>, VectorsToUpsert(run[r].src, run[r].version, run[r].ns))

SoloIndex(r) == Extend(<<>>, run[r].ns, SoloContent(r))

RECURSIVE SoloContexts(_, _, _)
\* main_article's all_contexts after the first j queries of a run executing alone,
\* with the same queries failing
SoloContexts(r, idx, j) ==
    IF j = 0 THEN <<>>
    ELSE LET before == SoloContexts(r, idx, j - 1)
         IN  IF run[r].qok[j]
             THEN AppendNew(before,
                            IndexQuery(idx, run[r].ns, EmbedQuery(run[r].queries[j]), TOP_K), 1)
             ELSE before

\* the retrieval result of a run executing alone on an empty index
SoloResult(r) ==
    IF run[r].src.kind = "article"
    THEN SliceTo(SoloContexts(r, SoloIndex(r), Len(run[r].queries)), TOP_K * 2)
    ELSE FuseAndTruncate(
             [j \in 1..Len(run[r].queries) |->
                 IndexQuery(SoloIndex(r), run[r].ns, EmbedQuery(run[r].queries[j]), per_query_k)],
             RunFinalK(run[r].src))

\* C7: when two runs with distinct namespaces execute concurrently, a namespace holds
\* exactly the vectors its own run wrote, and a run's retrieval result is the one it
\* gets when it executes alone.
C7_ConcurrentRunsDoNotInterfere ==
    \A r \in Runs :
        (Started(r) /\ run[Other(r)].ns # run[r].ns) =>
            /\ run[r].pc \in {"query", "done"} => NsContent(index, run[r].ns) = SoloContent(r)
            /\ run[r].pc = "done" => run[r].result = SoloResult(r)

\* C7 witness: two finished runs with distinct namespaces whose index calls overlapped,
\* one of them writing two batches, both with a non-empty result
C7_Witness ==
    /\ \A r \in Runs : run[r].pc = "done" /\ run[r].overlapped /\ run[r].result # <<>>
    /\ run["run1"].ns # run["run2"].ns
    /\ run["run1"].version = 1
    /\ run["run1"].src.kind = "article"
    /\ run["run2"].src.kind = "article"

SameIngestion(r, o) ==
    /\ Started(r) /\ Started(o)
    /\ run[r].src = run[o].src
    /\ run[r].version = run[o].version
    /\ run[r].ns = run[o].ns

\* C8: ingesting the same source twice into the same namespace leaves the namespace
\* with the same ids and the same vector count as ingesting it once: chunk i is always
\* written under the id derived from the namespace and i.
C8_ReingestOverwrites ==
    \A r \in Runs :
        (run[r].pc \in {"query", "done"} /\ SameIngestion(r, Other(r))) =>
            /\ DOMAIN NsContent(index, run[r].ns)
                 = {IdOf(run[r].ns, i) : i \in 0..(ChunkCount(run[r].version) - 1)}
            /\ Cardinality(DOMAIN NsContent(index, run[r].ns)) = ChunkCount(run[r].version)
            /\ NsContent(index, run[r].ns) = SoloContent(r)

\* C8 witness: the same source (an article, or a file uploaded twice within one
\* second) ingested twice into one namespace, the second time after the clock moved,
\* both runs finished and the first one having written two batches
C8_Witness ==
    /\ \A r \in Runs : run[r].pc = "done"
    /\ SameIngestion("run1", "run2")
    /\ run["run1"].src.kind \in {"article", "file"}
    /\ run["run1"].version = 1
    /\ Cardinality({w \in written : w.ns = run["run1"].ns}) >= 2
    /\ clock > 0

\* C9 as stated: the namespace is a function of the source identity only; two runs on
\* the same source, at any two times, derive the same namespace.
C9_NamespaceFromSourceOnly ==
    \A r, o \in Runs :
        (Started(r) /\ Started(o) /\ run[r].src = run[o].src) => run[r].ns = run[o].ns

----------------------------------------------------------------------------
(* Generation: generate_all and generate_article_content, one call each *)

GenLevel == "beginner"
GenLanguage == "en"
GenStyle == "concise"

\* generate_all(max_context_chars=6000)
GenBudget == 6000

InitGen ==
    /\ \E fn \in {"generate_all", "generate_article_content"}, key \in BOOLEAN,
          topic \in TopicInputs, hs \in GenHitInputs, cs \in ContextInputs :
          /\ fn = "generate_all" => cs = <<>>
          /\ fn = "generate_article_content" => hs = <<>> /\ ~topic.list
          /\ gen = [GenIdleRec EXCEPT !.fn = fn, !.key = key, !.topic = topic,
                                      !.level = GenLevel, !.language = GenLanguage,
                                      !.style = GenStyle, !.hits = hs, !.contexts = cs,
                                      !.pc = "start"]
    /\ js = JsIdleRec
    /\ FuseIdle
    /\ PackIdle
    /\ PipeIdle
    /\ ExtIdle
    /\ CombIdle

\* a failure of one objective that lets the later objectives run
Isolate(g, e) ==
    IF g.pc = "llm" /\ g.next < Len(Objectives)
    THEN [g EXCEPT !.next = @ + 1, !.error = e]
    ELSE [g EXCEPT !.pc = "raised", !.error = e]

\* what a failure inside generate_all does to the call: the exception propagates
Propagate(g, e) == [g EXCEPT !.pc = "raised", !.error = e]

\* a scaffold that keeps the fields and drops the sentinel
ScaffoldBlank(topic, level, language, style) ==
    ResultOf(topic, level, language, style,
             [o \in {"notes", "summary", "mcqs"} |->
                 ScaffoldBlockBlank(o, topic, level, language, style)])

\* the scaffold of generate_all
Scaffold(topic, level, language, style) ==
    ResultOf(topic, level, language, style,
             [o \in {"notes", "summary", "mcqs"} |->
                 ScaffoldBlock(o, topic, level, language, style)])

\* generate_all: `if not hits`
NoHits(hs) == hs = <<>>

\* generate_all up to the first LLM call: the key check, topic_str, the retrieval
\* (its outcome is gen.hits), the entry guard
GenStart ==
    /\ gen.pc = "start"
    /\ gen.fn = "generate_all"
    /\ gen' = IF ~gen.key THEN Propagate(gen, KeyMissingError)
              ELSE IF NoHits(gen.hits)
              THEN [gen EXCEPT !.pc = "returned",
                               !.result = Scaffold(TopicStr(gen.topic), gen.level,
                                                   gen.language, gen.style)]
              ELSE [gen EXCEPT !.pc = "llm"]
    /\ UNCHANGED js
    /\ UNCHANGED <<fuseVars, packVars, pipeVars, combVars, extVars>>

\* the prompt of one objective, as the fields _build_prompt puts into it
BuildPrompt(objective, topic, level, style, language, block) ==
    [objective |-> objective, topic |-> topic, level |-> level, style |-> style,
     language |-> language, context |-> block]

\* the backfill loop and the return statement of generate_all
BackfillAndReturn(g, parsed) ==
    IF \E o \in DOMAIN parsed : ~parsed[o].isDict
    THEN [Propagate(g, AttributeError) EXCEPT !.blocks = [o \in DOMAIN parsed |-> parsed[o].dict]]
    ELSE LET blocks == [o \in DOMAIN parsed |->
                           Backfill(parsed[o].dict, TopicStr(g.topic), o, g.level,
                                    g.language, g.style)]
         IN  [g EXCEPT !.pc = "returned",
                       !.blocks = blocks,
                       !.result = ResultOf(TopicStr(g.topic), g.level, g.language,
                                           g.style, blocks)]

\* generate_all: the prompt, the LLM call and the JSON guard of the next objective; the
\* LLM answers with raw
GenCall ==
    /\ gen.pc = "llm"
    /\ gen.fn = "generate_all"
    /\ \E raw \in LlmTexts :
        LET objective == Objectives[gen.next]
            prompt == BuildPrompt(objective, TopicStr(gen.topic), gen.level, gen.style,
                                  gen.language, _pack_context(gen.hits, GenBudget))
            out == _json_sanitize(StripText(raw))
            called == [gen EXCEPT !.calls = Append(@, prompt)]
        IN  gen' =
              IF out.raised
              THEN [Propagate(called, out.error) EXCEPT
                       !.outcomes = Append(@, "parse_failed")]
              ELSE LET parsed == [o \in (DOMAIN gen.blocks) \cup {objective} |->
                                     IF o = objective THEN out.value ELSE gen.blocks[o]]
                       kept == [called EXCEPT
                                   !.outcomes = Append(@, IF out.value.isDict THEN "ok"
                                                          ELSE "not_dict"),
                                   !.blocks = parsed,
                                   !.next = @ + 1]
                   IN  IF gen.next = Len(Objectives)
                       THEN BackfillAndReturn(kept, parsed)
                       ELSE kept
    /\ UNCHANGED js
    /\ UNCHANGED <<fuseVars, packVars, pipeVars, combVars, extVars>>

\* generate_all: the LLM call of the next objective raises
GenCallFails ==
    /\ gen.pc = "llm"
    /\ gen.fn = "generate_all"
    /\ LET objective == Objectives[gen.next]
           prompt == BuildPrompt(objective, TopicStr(gen.topic), gen.level, gen.style,
                                 gen.language, _pack_context(gen.hits, GenBudget))
       IN  gen' = [Propagate(gen, ApiError) EXCEPT
                      !.calls = Append(@, prompt),
                      !.outcomes = Append(@, "call_failed")]
    /\ UNCHANGED js
    /\ UNCHANGED <<fuseVars, packVars, pipeVars, combVars, extVars>>

\* "\n\n---\n\n".join(contexts); the contexts of the model stay below max_chars = 12000
ContextSeparator == <<Newline, Newline, "-", "-", "-", Newline, Newline>>

RECURSIVE JoinContexts(_)
JoinContexts(cs) ==
    IF cs = <<>> THEN <<>>
    ELSE IF Len(cs) = 1 THEN cs[1]
    ELSE cs[1] \o ContextSeparator \o JoinContexts(Tail(cs))

\* generate_article_content up to the first LLM call
ArtStart ==
    /\ gen.pc = "start"
    /\ gen.fn = "generate_article_content"
    /\ LET topic == gen.topic.items[1]
       IN  gen' = IF ~gen.key THEN Propagate(gen, KeyMissingError)
                  ELSE IF gen.contexts = <<>>
                  THEN LET blocks == [o \in {"notes", "summary", "mcqs"} |->
                                         ArticleEmptyBlock(o, topic, gen.level,
                                                           gen.language, gen.style)]
                       IN  [gen EXCEPT !.pc = "returned", !.blocks = blocks,
                                       !.result = ResultOf(topic, gen.level, gen.language,
                                                           gen.style, blocks)]
                  ELSE [gen EXCEPT !.pc = "llm"]
    /\ UNCHANGED js
    /\ UNCHANGED <<fuseVars, packVars, pipeVars, combVars, extVars>>

\* generate_article_content after the block of an objective is there: the next
\* objective, or the return statement
ArtNext(g, objective, block, outcome) ==
    LET blocks == [o \in (DOMAIN g.blocks) \cup {objective} |->
                      IF o = objective THEN block ELSE g.blocks[o]]
        kept == [g EXCEPT !.blocks = blocks, !.next = @ + 1,
                          !.outcomes = Append(@, outcome)]
    IN  IF g.next = Len(ArticleObjectives)
        THEN [kept EXCEPT !.pc = "returned",
                          !.result = ResultOf(g.topic.items[1], g.level, g.language,
                                              g.style, blocks)]
        ELSE kept

\* _generate_<objective>: the LLM answers with raw
ArtCall ==
    /\ gen.pc = "llm"
    /\ gen.fn = "generate_article_content"
    /\ \E raw \in LlmTexts :
        LET objective == ArticleObjectives[gen.next]
            topic == gen.topic.items[1]
            prompt == BuildPrompt(objective, topic, gen.level, gen.style, gen.language,
                                  JoinContexts(gen.contexts))
            parsed == _parse_json_response(raw)
            called == [gen EXCEPT !.calls = Append(@, prompt)]
        IN  gen' =
              IF parsed.isDict
              THEN ArtNext(called, objective,
                           AddMetadata(parsed.dict, topic, objective, gen.level,
                                       gen.language, gen.style),
                           IF JsonLoads(FenceStripped(raw)).ok
                           THEN "ok" ELSE "parse_failed")
              ELSE ArtNext(called, objective,
                           ArticleErrorBlock(objective, topic, gen.level, gen.language,
                                             gen.style),
                           "not_dict")
    /\ UNCHANGED js
    /\ UNCHANGED <<fuseVars, packVars, pipeVars, combVars, extVars>>

\* _generate_<objective>: model.generate_content raises; the except branch answers
ArtCallFails ==
    /\ gen.pc = "llm"
    /\ gen.fn = "generate_article_content"
    /\ LET objective == ArticleObjectives[gen.next]
           topic == gen.topic.items[1]
           prompt == BuildPrompt(objective, topic, gen.level, gen.style, gen.language,
                                 JoinContexts(gen.contexts))
       IN  gen' = ArtNext([gen EXCEPT !.calls = Append(@, prompt)], objective,
                          ArticleErrorBlock(objective, topic, gen.level, gen.language,
                                            gen.style),
                          "call_failed")
    /\ UNCHANGED js
    /\ UNCHANGED <<fuseVars, packVars, pipeVars, combVars, extVars>>

NextGen == GenStart \/ GenCall \/ GenCallFails \/ ArtStart \/ ArtCall \/ ArtCallFails

SpecGen == InitGen /\ [][NextGen]_vars

----------------------------------------------------------------------------
(* The JSON guard applied to bounded texts *)

InitJson ==
    /\ \E raw \in RawInputs, o \in {"notes", "summary", "mcqs"} :
          js = [JsIdleRec EXCEPT !.pc = "start", !.raw = raw, !.objective = o]
    /\ gen = GenIdleRec
    /\ FuseIdle
    /\ PackIdle
    /\ PipeIdle
    /\ ExtIdle
    /\ CombIdle

\* <objective> = _json_sanitize(<objective>_raw)
Sanitize ==
    /\ js.pc = "start"
    /\ js' = [js EXCEPT !.pc = "done", !.out = _json_sanitize(js.raw)]
    /\ UNCHANGED gen
    /\ UNCHANGED <<fuseVars, packVars, pipeVars, combVars, extVars>>

NextJson == Sanitize

SpecJson == InitJson /\ [][NextJson]_vars

----------------------------------------------------------------------------
(* The combined pipeline: main_combined.run_pipeline, one call *)

\* a retrieval depth that ignores the style
FinalKForDefault(style) == 8

\* run_pipeline: `if style == "concise": final_k = 3 ... else: final_k = 8`
FinalKFor(style) ==
    IF style = "concise" THEN 3
    ELSE IF style = "detailed" THEN 8
    ELSE IF style = "exam-prep" THEN 5
    ELSE 8

\* run_pipeline up to the source loops, for a call with the given sources and style
CombStart(srcs, style) ==
    [CombIdleRec EXCEPT !.pc = "collect", !.sources = srcs, !.style = style,
                        !.final_k = FinalKFor(style)]

InitComb ==
    /\ \E srcs \in CombinedInputs : comb = CombStart(srcs, GenStyle)
    /\ GenIdle
    /\ FuseIdle
    /\ PackIdle
    /\ PipeIdle
    /\ ExtIdle

\* the chunks make_chunks returns for source i
ChunksOf(i, n) == [k \in 1..n |-> <<i, k>>]

\* a failure of one source that ends the call
CollectStepAbort(c, outcome, n) ==
    LET done == [c EXCEPT !.processed = Append(@, [kind |-> c.sources[c.i], outcome |-> outcome,
                                                    chunks |-> IF outcome = "ok" THEN n ELSE 0]),
                          !.i = @ + 1]
    IN  IF outcome = "ok"
        THEN [done EXCEPT !.all_chunks = @ \o ChunksOf(c.i, n),
                          !.metadata = Append(@, [source |-> c.i, chunks |-> n])]
        ELSE [done EXCEPT !.pc = "raised", !.failed = "collect"]

\* one turn of a source loop: try: extract; if text: make_chunks, all_chunks.extend,
\* source_metadata append; except Exception: log
CollectStep(c, outcome, n) ==
    LET done == [c EXCEPT !.processed = Append(@, [kind |-> c.sources[c.i], outcome |-> outcome,
                                                    chunks |-> IF outcome = "ok" THEN n ELSE 0]),
                          !.i = @ + 1]
    IN  IF outcome = "ok"
        THEN [done EXCEPT !.all_chunks = @ \o ChunksOf(c.i, n),
                          !.metadata = Append(@, [source |-> c.i, chunks |-> n])]
        ELSE done

Collect ==
    /\ comb.pc = "collect"
    /\ comb.i <= Len(comb.sources)
    /\ \E outcome \in SourceOutcomes, n \in 1..MaxChunks :
          /\ outcome # "ok" => n = 1
          /\ comb' = CollectStep(comb, outcome, n)
    /\ UNCHANGED <<fuseVars, packVars, pipeVars, genVars, extVars>>

\* a check that lets a call without chunks go on
NothingCollectedNever(chunks) == FALSE

\* if not all_chunks: raise ValueError(...)
NothingCollected(chunks) == chunks = <<>>

Check ==
    /\ comb.pc = "collect"
    /\ comb.i > Len(comb.sources)
    /\ comb' = IF NothingCollected(comb.all_chunks)
               THEN [comb EXCEPT !.pc = "raised", !.failed = "collect"]
               ELSE [comb EXCEPT !.pc = Stages[1]]
    /\ UNCHANGED <<fuseVars, packVars, pipeVars, genVars, extVars>>

StageIndex(s) == CHOOSE k \in 1..Len(Stages) : Stages[k] = s

\* embed_chunks, ensure_index, upsert_chunks, generate_queries_from_plan or
\* retrieve_from_queries returns
StageOk ==
    /\ comb.pc \in {"embed", "ensure_index", "upsert", "query_expansion", "retrieval"}
    /\ comb' = [comb EXCEPT !.stages = Append(@, comb.pc),
                            !.llm = IF comb.pc = "query_expansion"
                                    THEN Append(@, "query_expansion") ELSE @,
                            !.upserted = IF comb.pc = "upsert" THEN comb.all_chunks ELSE @,
                            !.passed = IF comb.pc = "retrieval"
                                       THEN Append(@, [to |-> "retrieve_from_queries",
                                                       final_k |-> comb.final_k])
                                       ELSE @,
                            !.pc = Stages[StageIndex(comb.pc) + 1]]
    /\ UNCHANGED <<fuseVars, packVars, pipeVars, genVars, extVars>>

\* one of them raises; generate_queries_from_plan raises before or after its LLM call
StageFails ==
    /\ comb.pc \in {"embed", "ensure_index", "upsert", "query_expansion", "retrieval"}
    /\ \E called \in BOOLEAN :
          /\ called => comb.pc = "query_expansion"
          /\ comb' = [comb EXCEPT !.stages = Append(@, comb.pc),
                                  !.llm = IF called THEN Append(@, "query_expansion") ELSE @,
                                  !.passed = IF comb.pc = "retrieval"
                                             THEN Append(@, [to |-> "retrieve_from_queries",
                                                             final_k |-> comb.final_k])
                                             ELSE @,
                                  !.pc = "raised",
                                  !.failed = comb.pc]
    /\ UNCHANGED <<fuseVars, packVars, pipeVars, genVars, extVars>>

\* generate_all: it returns the scaffold without an LLM call, returns generated blocks,
\* or raises before or after an LLM call
Generate ==
    /\ comb.pc = "generation"
    /\ \E outcome \in {"scaffold", "generated", "raised", "raised_early"} :
          comb' = [comb EXCEPT !.stages = Append(@, "generation"),
                               !.passed = Append(@, [to |-> "generate_all",
                                                     final_k |-> comb.final_k]),
                               !.llm = IF outcome \in {"generated", "raised"}
                                       THEN Append(@, "generation") ELSE @,
                               !.pc = IF outcome \in {"scaffold", "generated"}
                                      THEN "finish" ELSE "raised",
                               !.failed = IF outcome \in {"scaffold", "generated"}
                                          THEN @ ELSE "generation"]
    /\ UNCHANGED <<fuseVars, packVars, pipeVars, genVars, extVars>>

\* the deck (its failure is logged), source_metadata, total_chunks, the saved file, return
Finish ==
    /\ comb.pc = "finish"
    /\ \E saved \in BOOLEAN :
          comb' = IF saved
                  THEN [comb EXCEPT !.pc = "returned", !.returned = TRUE,
                                    !.total_chunks = Len(comb.all_chunks)]
                  ELSE [comb EXCEPT !.pc = "raised", !.failed = "save"]
    /\ UNCHANGED <<fuseVars, packVars, pipeVars, genVars, extVars>>

NextComb == Collect \/ Check \/ StageOk \/ StageFails \/ Generate \/ Finish

SpecComb == InitComb /\ [][NextComb]_vars

\* the combined pipeline called with one source at most and every style
InitStyle ==
    /\ \E srcs \in {s \in CombinedInputs : Len(s) <= 1}, style \in StyleInputs :
          comb = CombStart(srcs, style)
    /\ GenIdle
    /\ FuseIdle
    /\ PackIdle
    /\ PipeIdle
    /\ ExtIdle

SpecStyle == InitStyle /\ [][NextComb]_vars

----------------------------------------------------------------------------
(* The batch loop of the upsert: main_article.run_pipeline, step 6 *)

\* the exception index.upsert raises: it comes from the index client, which knows
\* nothing of the batches the loop wrote before
UpsertError ==
    [type |-> "PineconeApiException", message |-> <<"upsert", "failed">>,
     committed |-> NoCount]

\* vectors_to_upsert[i:i+batch_size] as the ordinals it holds, first and last
BatchAt(i, n) == [from |-> i, to |-> Min(i + BatchSize, n) - 1]

InitUpsert ==
    /\ \E n \in 1..(2 * BatchSize + MaxExtra) :
          ups = [UpsIdleRec EXCEPT !.pc = "loop", !.n = n]
    /\ RqIdle /\ PlIdle /\ QgIdle /\ NspIdle /\ TpIdle
    /\ FuseIdle
    /\ PackIdle
    /\ PipeIdle
    /\ GenIdle
    /\ CombIdle

\* one turn of `for i in range(0, len(vectors_to_upsert), batch_size)`: index.upsert
\* returns
UpsertTurn ==
    /\ ups.pc = "loop"
    /\ LET batch == BatchAt(ups.i, ups.n)
       IN  ups' = [ups EXCEPT !.attempted = Append(@, batch),
                              !.batches = Append(@, batch),
                              !.stored = @ \cup (batch.from..batch.to),
                              !.i = @ + BatchSize,
                              !.pc = IF ups.i + BatchSize >= ups.n THEN "done" ELSE "loop"]
    /\ UNCHANGED <<rq, pl, qg, nsp, tp>>
    /\ UNCHANGED <<fuseVars, packVars, pipeVars, genVars, combVars>>

\* one turn of the loop: index.upsert raises, with the batch stored or not; the
\* handler of run_pipeline logs the exception and raises it again
UpsertTurnFails ==
    /\ ups.pc = "loop"
    /\ \E landed \in BOOLEAN :
        LET batch == BatchAt(ups.i, ups.n)
        IN  ups' = [ups EXCEPT !.attempted = Append(@, batch),
                               !.stored = IF landed THEN @ \cup (batch.from..batch.to) ELSE @,
                               !.error = UpsertError,
                               !.pc = "raised"]
    /\ UNCHANGED <<rq, pl, qg, nsp, tp>>
    /\ UNCHANGED <<fuseVars, packVars, pipeVars, genVars, combVars>>

NextUpsert == UpsertTurn \/ UpsertTurnFails

SpecUpsert == InitUpsert /\ [][NextUpsert]_vars

----------------------------------------------------------------------------
(* retrieve_from_queries with its outgoing calls: retriever.py *)

\* what the index may answer to query q: nothing, one hit, two hits
AnswerInputs(q) == {MkList(ids, 1) : ids \in {<<>>, <<q>>, <<q, NumIds>>}}

InitRetrieve ==
    /\ \E qs \in SeqsUpTo(1..2, MaxLists), k \in FinalKInputs :
          rq = [RqIdleRec EXCEPT !.pc = "start", !.queries = qs, !.final_k = k]
    /\ UpsIdle /\ PlIdle /\ QgIdle /\ NspIdle /\ TpIdle
    /\ FuseIdle
    /\ PackIdle
    /\ PipeIdle
    /\ GenIdle
    /\ CombIdle

\* an entry guard that lets an empty list of queries through
NoQueriesNever(queries) == FALSE

\* `if not queries`
NoQueries(queries) == queries = <<>>

\* pinecone_query(vector=qv, namespace=namespace, top_k=per_query_k, ...) for the
\* first n query vectors
IndexCalls(queries, n) ==
    [j \in 1..n |-> [vector |-> EmbedQuery(queries[j]), top_k |-> per_query_k]]

\* retrieve_from_queries returns: the entry guard, embed_texts, one search per query
\* vector, the fusion and the cut to final_k
RetrieveFromQueries ==
    /\ rq.pc = "start"
    /\ IF NoQueries(rq.queries)
       THEN rq' = [rq EXCEPT !.pc = "returned", !.out = <<>>]
       ELSE \E answers \in [1..Len(rq.queries) -> UNION {AnswerInputs(q) : q \in 1..2}] :
               /\ \A j \in 1..Len(rq.queries) : answers[j] \in AnswerInputs(rq.queries[j])
               /\ rq' = [rq EXCEPT !.pc = "returned",
                                   !.embed_calls = <<rq.queries>>,
                                   !.index_calls = IndexCalls(rq.queries, Len(rq.queries)),
                                   !.out = FuseAndTruncate(answers, rq.final_k)]
    /\ UNCHANGED <<ups, pl, qg, nsp, tp>>
    /\ UNCHANGED <<fuseVars, packVars, pipeVars, genVars, combVars>>

\* retrieve_from_queries raises: embed_texts raises (n = 0), or the n-th search does
RetrieveFromQueriesFails ==
    /\ rq.pc = "start"
    /\ ~NoQueries(rq.queries)
    /\ \E n \in 0..Len(rq.queries) :
          rq' = [rq EXCEPT !.pc = "raised",
                           !.embed_calls = <<rq.queries>>,
                           !.index_calls = IndexCalls(rq.queries, n)]
    /\ UNCHANGED <<ups, pl, qg, nsp, tp>>
    /\ UNCHANGED <<fuseVars, packVars, pipeVars, genVars, combVars>>

NextRetrieve == RetrieveFromQueries \/ RetrieveFromQueriesFails

SpecRetrieve == InitRetrieve /\ [][NextRetrieve]_vars

----------------------------------------------------------------------------
(* The weights of a plan: generate_plan.py, _coerce_int and _normalize_weights *)

\* the "weight" entry of a subtopic as the LLM wrote it: absent, not a number, or a
\* number given in halves (5 halves is 2.5)
Missing == [kind |-> "missing", halves |-> 0]
NonNumeric == [kind |-> "text", halves |-> 0]
Number(h) == [kind |-> "num", halves |-> h]

RawWeightInputs ==
    {Missing, NonNumeric, Number(0 - 2), Number(5), Number(200)}
        \cup {Number(2 * w) : w \in 0..MaxWeight}

\* round(num / den) of Python 3 for den > 0: to the nearest integer, a tie to the even
\* one
RoundHalfEven(num, den) ==
    LET q == num \div den
        r == num % den
    IN  IF 2 * r < den THEN q
        ELSE IF 2 * r > den THEN q + 1
        ELSE IF q % 2 = 0 THEN q ELSE q + 1

\* _coerce_int(s.get("weight", 0), default=0)
_coerce_int(x) == IF x.kind = "num" THEN RoundHalfEven(x.halves, 2) ELSE 0

RECURSIVE SumSeq(_)
SumSeq(s) == IF s = <<>> THEN 0 ELSE Head(s) + SumSeq(Tail(s))

\* the loop "Coerce to ints >=0"
CoercedWeights(subs) == [i \in 1..Len(subs) |-> Max(0, _coerce_int(subs[i]))]

\* the even split: 100 // n each, one more for the first `remainder` subtopics
EvenSplit(n) ==
    [i \in 1..n |-> (100 \div n) + (IF i <= 100 - n * (100 \div n) THEN 1 ELSE 0)]

\* int(round(w * 100.0 / max(1, total)))
Scaled(w, total) == RoundHalfEven(w * 100, Max(1, total))

\* a rescaling that rounds the last weight like the others
RescaleAllRounded(weights, total) ==
    [i \in 1..Len(weights) |-> Scaled(weights[i], total)]

\* the loop "Rescale proportionally": the last subtopic takes 100 - running
Rescale(weights, total) ==
    LET n == Len(weights)
        first == [i \in 1..(n - 1) |-> Scaled(weights[i], total)]
    IN  Append(first, 100 - SumSeq(first))

\* the weights of the subtopics after _normalize_weights
_normalize_weights(subs) ==
    LET weights == CoercedWeights(subs)
        total == SumSeq(weights)
    IN  IF subs = <<>> THEN <<>>
        ELSE IF total = 100 THEN weights
        ELSE IF total = 0 THEN EvenSplit(Len(subs))
        ELSE Rescale(weights, total)

InitPlan ==
    /\ \E raw \in SeqsUpTo(RawWeightInputs, MaxSubs) :
          pl = [PlIdleRec EXCEPT !.pc = "start", !.raw = raw]
    /\ UpsIdle /\ RqIdle /\ QgIdle /\ NspIdle /\ TpIdle
    /\ FuseIdle
    /\ PackIdle
    /\ PipeIdle
    /\ GenIdle
    /\ CombIdle

\* generate_plan from the parsed answer on: _normalize_weights, then
\* s["weight"] = _coerce_int(s.get("weight", 0)) for every subtopic
NormalizePlan ==
    /\ pl.pc = "start"
    /\ LET normalized == _normalize_weights(pl.raw)
       IN  pl' = [pl EXCEPT !.pc = "done",
                            !.subs = [i \in 1..Len(normalized) |->
                                         RoundHalfEven(2 * normalized[i], 2)]]
    /\ UNCHANGED <<ups, rq, qg, nsp, tp>>
    /\ UNCHANGED <<fuseVars, packVars, pipeVars, genVars, combVars>>

NextPlan == NormalizePlan

SpecPlan == InitPlan /\ [][NextPlan]_vars

----------------------------------------------------------------------------
(* Query expansion: generate_queries.py *)

MaxQueryWords == 9   \* if len(words) > 9: q = " ".join(words[:9])

Dash == "-"
Quote == "\""

\* a line of k one-letter words, every word "a" but the last
Words(k, last) == Join([i \in 1..k |-> IF i = k THEN <<last>> ELSE <<"a">>], Space)

\* the same line as a bullet, quoted, with a capital first letter
Decorated(line) ==
    <<Dash, Space, Quote>>
        \o [i \in 1..Len(line) |-> IF i = 1 /\ line[i] = "a" THEN "A" ELSE line[i]]
        \o <<Quote>>

LineLengths == {0, 1} \cup (MaxQueryWords..MaxLineWords)

LineInputs ==
    UNION {{Words(k, last), Decorated(Words(k, last))} :
              k \in LineLengths, last \in {"a", "b"}}

RECURSIVE StripChars(_, _)
\* str.strip(chars)
StripChars(s, chars) ==
    IF s # <<>> /\ Head(s) \in chars THEN StripChars(Tail(s), chars)
    ELSE IF s # <<>> /\ s[Len(s)] \in chars THEN StripChars(SubSeq(s, 1, Len(s) - 1), chars)
    ELSE s

RECURSIVE Split(_)
\* str.split(): the runs of characters between the whitespace
Split(s) ==
    LET body == LStrip(s)
        ends == {i \in 1..Len(body) : IsSpace(body[i])}
        stop == IF ends = {} THEN Len(body) + 1 ELSE CHOOSE i \in ends : \A j \in ends : i <= j
    IN  IF body = <<>> THEN <<>>
        ELSE <<SubSeq(body, 1, stop - 1)>> \o Split(SubSeq(body, stop, Len(body)))

\* str.lower()
Lower(s) == [i \in 1..Len(s) |-> IF s[i] = "A" THEN "a" ELSE s[i]]

\* one turn of `for line in text.splitlines()`
QueryStep(st, line) ==
    LET bare == Strip(StripChars(Strip(line), {Dash}))
        q == Lower(StripChars(Join(Split(bare), Space), {Quote}))
        words == Split(q)
        cut == IF Len(words) > MaxQueryWords
               THEN Join(SubSeq(words, 1, MaxQueryWords), Space) ELSE q
    IN  IF bare = <<>> THEN st
        ELSE IF q \in st.seen THEN st
        ELSE IF cut # <<>>
        THEN [out |-> Append(st.out, cut), seen |-> st.seen \cup {cut}]
        ELSE st

RECURSIVE QueryLoop(_, _, _)
QueryLoop(st, text, i) ==
    IF i > Len(text) THEN st ELSE QueryLoop(QueryStep(st, text[i]), text, i + 1)

\* _gemini_queries from the answer on: the loop over the lines and out[:n_total]
_gemini_queries(text, n_total) ==
    SliceTo(QueryLoop([out |-> <<>>, seen |-> {}], text, 1).out, n_total)

InitQueries ==
    /\ \E key \in BOOLEAN, plan \in {<<>>, <<Space>>, <<"p">>}, n \in {1, 8} :
          qg = [QgIdleRec EXCEPT !.pc = "start", !.key = key, !.plan = plan, !.n = n]
    /\ UpsIdle /\ RqIdle /\ PlIdle /\ NspIdle /\ TpIdle
    /\ FuseIdle
    /\ PackIdle
    /\ PipeIdle
    /\ GenIdle
    /\ CombIdle

\* generate_queries_from_plan: the two entry checks; then n is clamped to 3..12, the
\* LLM answers with the lines of text, and the lines are cleaned
GenerateQueries ==
    /\ qg.pc = "start"
    /\ IF ~qg.key
       THEN qg' = [qg EXCEPT !.pc = "raised", !.error = "RuntimeError"]
       ELSE IF Strip(qg.plan) = <<>>
       THEN qg' = [qg EXCEPT !.pc = "raised", !.error = "ValueError"]
       ELSE \E text \in SeqsUpTo(LineInputs, MaxLines) :
               qg' = [qg EXCEPT !.pc = "returned", !.text = text, !.llm = 1,
                                !.out = _gemini_queries(text, Max(3, Min(12, qg.n)))]
    /\ UNCHANGED <<ups, rq, pl, nsp, tp>>
    /\ UNCHANGED <<fuseVars, packVars, pipeVars, genVars, combVars>>

\* generate_queries_from_plan: the LLM call raises or answers without text
GenerateQueriesFails ==
    /\ qg.pc = "start"
    /\ qg.key
    /\ Strip(qg.plan) # <<>>
    /\ qg' = [qg EXCEPT !.pc = "raised", !.llm = 1, !.error = "RuntimeError"]
    /\ UNCHANGED <<ups, rq, pl, nsp, tp>>
    /\ UNCHANGED <<fuseVars, packVars, pipeVars, genVars, combVars>>

NextQueries == GenerateQueries \/ GenerateQueriesFails

SpecQueries == InitQueries /\ [][NextQueries]_vars

----------------------------------------------------------------------------
(* The namespace of a combined call: main_combined.run_pipeline, two calls *)

\* the source batches of a combined call: video urls, article urls, uploaded files
BatchInputs ==
    [videos : SeqsUpTo({<<"u">>, <<"v">>}, MaxUrls),
     articles : SeqsUpTo({<<"u">>, <<"v">>}, MaxUrls),
     files : SeqsUpTo({<<"f">>, <<"g">>}, MaxUrls)]

InitNs ==
    /\ \E b1, b2 \in BatchInputs :
          nsp = [NspIdleRec EXCEPT !.pc = "start", !.batches = <<b1, b2>>,
                                   !.ns = <<NoNamespace, NoNamespace>>]
    /\ UpsIdle /\ RqIdle /\ PlIdle /\ QgIdle /\ TpIdle
    /\ FuseIdle
    /\ PackIdle
    /\ PipeIdle
    /\ GenIdle
    /\ CombIdle

\* call k of run_pipeline up to `namespace = f"combined:{source_hash}"`
DeriveNamespace(k) ==
    /\ nsp.pc = "start"
    /\ nsp.ns[k] = NoNamespace
    /\ LET b == nsp.batches[k]
       IN  nsp' = [nsp EXCEPT !.ns[k] = CombinedNamespace(b.videos, b.articles, b.files)]
    /\ UNCHANGED <<ups, rq, pl, qg, tp>>
    /\ UNCHANGED <<fuseVars, packVars, pipeVars, genVars, combVars>>

NextNs == \E k \in 1..2 : DeriveNamespace(k)

SpecNs == InitNs /\ [][NextNs]_vars

----------------------------------------------------------------------------
(* Content from a plan: main_topic_name.generate_content_from_plan, one call *)

\* the subtopics of a plan: subtopic k is titled "s<k>" or has no "title" key
SubtopicInputs ==
    UNION {{[k \in 1..n |-> [title |-> IF titled[k] THEN <<"s", Digits[k + 1]>> ELSE <<>>,
                              titled |-> titled[k]]] :
               titled \in [1..n -> BOOLEAN]} :
           n \in 0..MaxSubs}

\* the LLM texts tried for one subtopic: an object, prose, a number, two objects
TopicTexts == {FullObject, <<Word>>, <<Num>>, <<LB, RB, Word, LB, RB>>}

\* sanitize_json(raw_response): json.loads of the whole text, then of the text from
\* the first "{" to the last "}"; ValueError when neither parses
sanitize_json(s) ==
    LET whole == JsonLoads(s)
        start == Find(s, LB)
        end == RFind(s, RB)
        inner == IF start # 0 /\ end # 0 /\ end > start
                 THEN JsonLoads(SubSeq(s, start, end)) ELSE NotParsed
    IN  IF whole.ok THEN Returned(whole)
        ELSE IF inner.ok THEN Returned(inner)
        ELSE Raised([type |-> "ValueError",
                     message |-> <<"Could", "not", "parse", "valid", "JSON">>])

InitTopic ==
    /\ \E subs \in SubtopicInputs : tp = [TpIdleRec EXCEPT !.pc = "start", !.subtopics = subs]
    /\ UpsIdle /\ RqIdle /\ PlIdle /\ QgIdle /\ NspIdle
    /\ FuseIdle
    /\ PackIdle
    /\ PipeIdle
    /\ GenIdle
    /\ CombIdle

\* generate_content_from_plan up to the loop: `if not subtopics: raise ValueError`
TopicStart ==
    /\ tp.pc = "start"
    /\ tp' = IF tp.subtopics = <<>>
             THEN [tp EXCEPT !.pc = "raised", !.error = "ValueError"]
             ELSE [tp EXCEPT !.pc = "loop"]
    /\ UNCHANGED <<ups, rq, pl, qg, nsp>>
    /\ UNCHANGED <<fuseVars, packVars, pipeVars, genVars, combVars>>

\* the entry the except branch appends
ErrorEntry(i, sub, e) == [turn |-> i, error |-> e, subtopic |-> sub.title]

\* the entry of a generated subtopic
ContentEntry(i) == [turn |-> i, error |-> "", subtopic |-> <<>>]

\* one turn of `for i, subtopic in enumerate(subtopics, 1)`: the print of the title;
\* in the try the LLM call, sanitize_json, the three fields from the plan, the append,
\* the subtopic file; in the except the append of the error entry
TopicTurn ==
    /\ tp.pc = "loop"
    /\ \E called \in BOOLEAN, raw \in TopicTexts, saved \in BOOLEAN :
        LET sub == tp.subtopics[tp.i]
            out == sanitize_json(StripText(raw))
            outcome == IF ~called THEN "call_failed"
                       ELSE IF out.raised THEN "parse_failed"
                       ELSE IF ~out.value.isDict THEN "not_dict"
                       ELSE IF ~saved THEN "save_failed"
                       ELSE "ok"
            entries == CASE outcome = "ok" -> <<ContentEntry(tp.i)>>
                         [] outcome = "save_failed" ->
                                <<ContentEntry(tp.i), ErrorEntry(tp.i, sub, "OSError")>>
                         [] outcome = "call_failed" -> <<ErrorEntry(tp.i, sub, "APIError")>>
                         [] outcome = "parse_failed" -> <<ErrorEntry(tp.i, sub, "ValueError")>>
                         [] outcome = "not_dict" -> <<ErrorEntry(tp.i, sub, "TypeError")>>
        IN  /\ ~called => raw = FullObject /\ saved
            /\ (out.raised \/ ~out.value.isDict) => saved
            /\ tp' = IF ~sub.titled
                     THEN [tp EXCEPT !.pc = "raised", !.error = "KeyError"]
                     ELSE [tp EXCEPT !.llm = Append(@, tp.i),
                                     !.outcomes = Append(@, outcome),
                                     !.content = @ \o entries,
                                     !.i = @ + 1,
                                     !.pc = IF tp.i = Len(tp.subtopics)
                                            THEN "finish" ELSE "loop"]
    /\ UNCHANGED <<ups, rq, pl, qg, nsp>>
    /\ UNCHANGED <<fuseVars, packVars, pipeVars, genVars, combVars>>

\* the complete file is written and all_content returned, or the write raises
TopicFinish ==
    /\ tp.pc = "finish"
    /\ \E saved \in BOOLEAN :
          tp' = IF saved THEN [tp EXCEPT !.pc = "returned"]
                ELSE [tp EXCEPT !.pc = "raised", !.error = "OSError"]
    /\ UNCHANGED <<ups, rq, pl, qg, nsp>>
    /\ UNCHANGED <<fuseVars, packVars, pipeVars, genVars, combVars>>

NextTopic == TopicStart \/ TopicTurn \/ TopicFinish

SpecTopic == InitTopic /\ [][NextTopic]_vars

----------------------------------------------------------------------------
(* Properties of the context block *)

\* C11 as stated: whenever retrieval returned at least one hit, the context block
\* generate_all sends to the LLM holds at least one hit text; the LLM is never called
\* with a block of the header alone.
C11_ContextHasSnippetWhenHits ==
    (gen.fn = "generate_all" /\ gen.hits # <<>>) =>
        \A i \in 1..Len(gen.calls) :
            /\ gen.calls[i].context # ContextHeader
            /\ \E j \in 1..Len(gen.hits) :
                  /\ HitText(gen.hits[j]) # <<>>
                  /\ Len(gen.calls[i].context) >= Len(ContextHeader) + 1 + Len(HitText(gen.hits[j]))

\* C12 as stated: whenever the first non-empty hit text fits within max_context_chars,
\* the string _pack_context returns has at most max_context_chars characters.
C12_BlockWithinBudget ==
    (ppc = "packed" /\ NonEmptyTexts(pk_hits) # <<>>
       /\ Len(NonEmptyTexts(pk_hits)[1]) <= max_context_chars) =>
        Len(context_block) <= max_context_chars

\* C13: the output of _pack_context depends only on the hit texts, in their order, and on
\* max_context_chars: hits with the same texts under other ids and scores give the
\* same block.
C13_BlockDependsOnTextsOnly ==
    (/\ ppc = "packed"
     /\ Len(pk_other) = Len(pk_hits)
     /\ \A i \in 1..Len(pk_hits) : pk_other[i].text = pk_hits[i].text) =>
        context_other = context_block

\* C13 witness: two or more hits, every id and every score changed, and a block with
\* two snippets in it
C13_Witness ==
    /\ ppc = "packed"
    /\ Len(pk_hits) >= 2
    /\ Len(pk_other) = Len(pk_hits)
    /\ \A i \in 1..Len(pk_hits) :
          /\ pk_other[i].text = pk_hits[i].text
          /\ pk_other[i].id # pk_hits[i].id
          /\ pk_other[i].score # pk_hits[i].score
    /\ {pk_other[i].id : i \in 1..Len(pk_other)} \cap {pk_hits[i].id : i \in 1..Len(pk_hits)} = {}
    /\ Len(lines) >= 3
    /\ context_other = context_block

----------------------------------------------------------------------------
(* Properties of the generators *)

BlockNames == {"notes", "summary", "mcqs"}

\* the block of an objective in a returned result
BlockOf(result, o) ==
    CASE o = "notes" -> result.notes
      [] o = "summary" -> result.summary
      [] o = "mcqs" -> result.mcqs

\* a block carries the given topic, level, language and style
CarriesCall(b, topic, level, language, style) ==
    /\ {"topic", "level", "language", "style"} \subseteq DOMAIN b
    /\ b.topic = [list |-> FALSE, items |-> <<topic>>]
    /\ b.level = [list |-> FALSE, items |-> <<level>>]
    /\ b.language = [list |-> FALSE, items |-> <<language>>]
    /\ b.style = [list |-> FALSE, items |-> <<style>>]

IsEmptyList(v) == v = [list |-> TRUE, items |-> <<>>]

IsSentinel(v) == v = [list |-> FALSE, items |-> <<"insufficient information">>]

\* C14: when retrieval returns zero hits, generate_all makes no LLM call and returns all
\* three blocks: notes and summary with the summary "insufficient information" and
\* empty key_points, notes with empty sections, glossary and misconceptions, mcqs with
\* empty questions, every block with the topic, level, language and style of the call;
\* the result is a function of the inputs.
C14_ScaffoldOnEmptyRetrieval ==
    (gen.fn = "generate_all" /\ gen.key /\ gen.hits = <<>> /\ gen.pc # "start") =>
        /\ gen.pc = "returned"
        /\ gen.calls = <<>>
        /\ DOMAIN gen.result.notes =
              {"topic", "objective", "level", "language", "style", "summary", "key_points",
               "sections", "glossary", "misconceptions"}
        /\ DOMAIN gen.result.summary =
              {"topic", "objective", "level", "language", "style", "summary", "key_points"}
        /\ DOMAIN gen.result.mcqs =
              {"topic", "objective", "level", "language", "style", "questions"}
        /\ IsSentinel(gen.result.notes.summary)
        /\ IsSentinel(gen.result.summary.summary)
        /\ IsEmptyList(gen.result.notes.key_points)
        /\ IsEmptyList(gen.result.summary.key_points)
        /\ IsEmptyList(gen.result.notes.sections)
        /\ IsEmptyList(gen.result.notes.glossary)
        /\ IsEmptyList(gen.result.notes.misconceptions)
        /\ IsEmptyList(gen.result.mcqs.questions)
        /\ \A o \in BlockNames :
              CarriesCall(BlockOf(gen.result, o), TopicStr(gen.topic), gen.level,
                          gen.language, gen.style)
        /\ gen.result.topic = TopicStr(gen.topic)
        /\ gen.result.level = gen.level
        /\ gen.result.language = gen.language
        /\ gen.result.style = gen.style

\* C14 witness: generate_all with a list of two topics has returned after an empty
\* retrieval
C14_Witness ==
    /\ gen.fn = "generate_all"
    /\ gen.key
    /\ gen.hits = <<>>
    /\ gen.pc = "returned"
    /\ gen.topic.list
    /\ Len(gen.topic.items) = 2
    /\ gen.result.notes.topic.items = <<"t, u">>

\* the order in which a generator takes the objectives
OrderOf(fn) == IF fn = "generate_all" THEN Objectives ELSE ArticleObjectives

\* how the LLM call and the parse of an objective went
OutcomeOf(o) == gen.outcomes[CHOOSE i \in 1..3 : OrderOf(gen.fn)[i] = o]

HasContentFields(o, b) ==
    IF o = "mcqs" THEN "questions" \in DOMAIN b
    ELSE {"summary", "key_points"} \subseteq DOMAIN b

\* C15 as stated: every result of generate_all and generate_article_content has the
\* three blocks with their content fields, also when an LLM call failed or its output
\* did not parse; the block of such an objective holds "insufficient information" and
\* empty collections.
C15_BlocksAlwaysComplete ==
    gen.pc = "returned" =>
        \A o \in BlockNames :
            /\ HasContentFields(o, BlockOf(gen.result, o))
            /\ (gen.calls # <<>> /\ OutcomeOf(o) \in {"call_failed", "parse_failed"}) =>
                  IF o = "mcqs" THEN IsEmptyList(BlockOf(gen.result, o).questions)
                  ELSE /\ IsSentinel(BlockOf(gen.result, o).summary)
                       /\ IsEmptyList(BlockOf(gen.result, o).key_points)

\* C16 as stated: after generate_all succeeds on non-empty hits, every block has the
\* topic, level, language and style of the call and its own objective name, whatever
\* the model put into those fields or left out.
C16_FieldsForcedToCall ==
    (gen.fn = "generate_all" /\ gen.pc = "returned" /\ gen.hits # <<>>) =>
        \A o \in BlockNames :
            /\ CarriesCall(BlockOf(gen.result, o), TopicStr(gen.topic), gen.level,
                           gen.language, gen.style)
            /\ "objective" \in DOMAIN BlockOf(gen.result, o)
            /\ BlockOf(gen.result, o).objective = [list |-> FALSE, items |-> <<o>>]

\* the parse order of the guard: the whole text first, the text between the first "{"
\* and the last "}" only after that failed
GuardOrder ==
    js.pc = "done" =>
        LET start == Find(js.raw, LB)
            end == RFind(js.raw, RB)
            between == start # 0 /\ end # 0 /\ end > start
        IN  /\ js.out.attempts[1] = js.raw
            /\ JsonLoads(js.raw).ok =>
                  js.out.attempts = <<js.raw>> /\ ~js.out.raised /\ js.out.value = JsonLoads(js.raw)
            /\ (~JsonLoads(js.raw).ok /\ between) =>
                  /\ js.out.attempts = <<js.raw, SubSeq(js.raw, start, end)>>
                  /\ js.out.raised = ~JsonLoads(SubSeq(js.raw, start, end)).ok
                  /\ ~js.out.raised => js.out.value = JsonLoads(SubSeq(js.raw, start, end))
            /\ (~JsonLoads(js.raw).ok /\ ~between) =>
                  js.out.attempts = <<js.raw>> /\ js.out.raised

\* an error message that names the objective
NamesObjective(e, o) == \E i \in 1..Len(e.message) : e.message[i] = o

\* C17 as stated: the guard parses the whole text first, then the text from the first
\* "{" to the last "}"; without such a text, or if that does not parse either, the call
\* fails with a parse error that names the objective.
C17_GuardFailsNamingObjective ==
    /\ GuardOrder
    /\ (js.pc = "done" /\ js.out.raised) => NamesObjective(js.out.error, js.objective)

\* C18: on non-empty hits generate_all calls the LLM at most once per objective, in the
\* order notes, summary, mcqs; after a failed call or parse no later call is made and
\* generate_all raises without returning a block.
C18_SequentialAndFatal ==
    (gen.fn = "generate_all" /\ gen.hits # <<>>) =>
        /\ Len(gen.calls) <= 3
        /\ \A i \in 1..Len(gen.calls) : gen.calls[i].objective = <<"notes", "summary", "mcqs">>[i]
        /\ \A i \in 1..Len(gen.outcomes) :
              gen.outcomes[i] \in {"call_failed", "parse_failed"} =>
                  /\ Len(gen.calls) = i
                  /\ gen.pc = "raised"
                  /\ gen.result = NoResult

\* C18 witness: notes went through, the summary text did not parse, generate_all raised
\* after two calls
C18_Witness ==
    /\ gen.fn = "generate_all"
    /\ gen.hits # <<>>
    /\ gen.outcomes = <<"ok", "parse_failed">>
    /\ Len(gen.calls) = 2
    /\ gen.pc = "raised"
    /\ gen.error.type = "JSONDecodeError"

----------------------------------------------------------------------------
(* Properties of the combined pipeline *)

\* stage s was run and did not fail
Completed(s) ==
    /\ \E i \in 1..Len(comb.stages) : comb.stages[i] = s
    /\ comb.failed # s

\* C19: in the combined pipeline no query-expansion or generation LLM call is made and
\* no result is returned unless the collection gave at least one chunk and embedding,
\* ensure_index and upsert completed without error; the stages run in the order chunk,
\* embed, ensure_index, upsert, query expansion, retrieval, generation.
C19_IngestionBeforeGeneration ==
    /\ Len(comb.stages) <= 6
    /\ \A i \in 1..Len(comb.stages) :
          comb.stages[i] = <<"embed", "ensure_index", "upsert", "query_expansion",
                             "retrieval", "generation">>[i]
    /\ comb.stages # <<>> => Len(comb.processed) = Len(comb.sources)
    /\ (comb.llm # <<>> \/ comb.returned) =>
          /\ comb.all_chunks # <<>>
          /\ Completed("embed")
          /\ Completed("ensure_index")
          /\ Completed("upsert")
          /\ comb.upserted = comb.all_chunks
    /\ \A i \in 1..Len(comb.llm) :
          comb.llm[i] = "generation" =>
              \E j \in 1..Len(comb.stages) : comb.stages[j] = "retrieval"
    /\ comb.returned => Len(comb.stages) = 6 /\ comb.failed = ""

\* C19 witness: a call that returned after both LLM stages, with a source that gave
\* nothing on the way
C19_Witness ==
    /\ comb.returned
    /\ comb.llm = <<"query_expansion", "generation">>
    /\ \E i \in 1..Len(comb.processed) : comb.processed[i].outcome = "extract_fails"
    /\ Len(comb.all_chunks) >= 2

\* the chunks of source i are in all_chunks, in their order
ChunksKept(i, n) ==
    \E at \in 1..Len(comb.all_chunks) :
        /\ at + n - 1 <= Len(comb.all_chunks)
        /\ \A k \in 1..n : comb.all_chunks[at + k - 1] = <<i, k>>

\* C20: a failure or an empty text while extracting or chunking one source skips that
\* source only; every other source is processed and its chunks are ingested; the run
\* aborts with an error only when no source yielded a chunk.
C20_SourceFailuresAreLocal ==
    /\ comb.pc \notin {"idle", "collect"} => Len(comb.processed) = Len(comb.sources)
    /\ \A i \in 1..Len(comb.processed) :
          IF comb.processed[i].outcome = "ok"
          THEN ChunksKept(i, comb.processed[i].chunks)
          ELSE \A j \in 1..Len(comb.all_chunks) : comb.all_chunks[j][1] # i
    /\ \A j \in 1..Len(comb.all_chunks) :
          /\ comb.all_chunks[j][1] \in 1..Len(comb.processed)
          /\ \A m \in (j + 1)..Len(comb.all_chunks) : comb.all_chunks[m] # comb.all_chunks[j]
    /\ comb.failed = "collect" <=>
          /\ comb.pc = "raised"
          /\ Len(comb.processed) = Len(comb.sources)
          /\ \A i \in 1..Len(comb.processed) : comb.processed[i].outcome # "ok"
          /\ comb.stages = <<>>
    /\ Completed("upsert") => comb.upserted = comb.all_chunks

\* C20 witness: the video failed in the extractor, the article gave two chunks, the
\* file failed in the chunker, and the article's chunks were upserted
C20_Witness ==
    /\ comb.sources = <<"video", "article", "file">>
    /\ Len(comb.processed) = 3
    /\ comb.processed[1].outcome = "extract_fails"
    /\ comb.processed[2].outcome = "ok"
    /\ comb.processed[3].outcome = "chunk_fails"
    /\ comb.upserted = <<<<2, 1>>, <<2, 2>>>>
    /\ Completed("upsert")

----------------------------------------------------------------------------
(* Properties of the upsert loop *)

\* the vectors the completed batches hold
Committed(u) == UNION {u.batches[k].from..u.batches[k].to : k \in 1..Len(u.batches)}

\* C21: upsert writes the vectors in consecutive batches of at most batch_size (100),
\* in order, each vector in exactly one batch; when the write of a batch fails, no
\* later batch is written, the batches before it stay committed, and the error
\* surfaced to the caller carries the number of vectors already committed.
C21_BatchesAndPartialError ==
    /\ \A k \in 1..Len(ups.attempted) :
          /\ ups.attempted[k].from = (k - 1) * BatchSize
          /\ ups.attempted[k].to = Min(k * BatchSize, ups.n) - 1
          /\ ups.attempted[k].to - ups.attempted[k].from + 1 \in 1..BatchSize
    /\ ups.pc = "done" =>
          \A v \in 0..(ups.n - 1) :
              Cardinality({k \in 1..Len(ups.batches) :
                              v \in ups.batches[k].from..ups.batches[k].to}) = 1
    /\ ups.pc = "raised" =>
          /\ Len(ups.attempted) = Len(ups.batches) + 1
          /\ Committed(ups) \subseteq ups.stored
          /\ ups.error.committed = Cardinality(Committed(ups))

----------------------------------------------------------------------------
(* Properties of the retrieval depth *)

\* the policy table of the retrieval depth
StyleTable(style) ==
    CASE style = "concise" -> 3
      [] style = "detailed" -> 8
      [] style = "exam-prep" -> 5
      [] OTHER -> 8

\* C22: in the combined pipeline the retrieval depth final_k passed to both
\* retrieve_from_queries and generate_all is determined by the style alone: 3 for
\* concise, 8 for detailed, 5 for exam-prep and 8 for any other style value.
C22_FinalKByStyle ==
    /\ \A k \in 1..Len(comb.passed) : comb.passed[k].final_k = StyleTable(comb.style)
    /\ comb.pc \in {"finish", "returned"} =>
          /\ Len(comb.passed) = 2
          /\ comb.passed[1].to = "retrieve_from_queries"
          /\ comb.passed[2].to = "generate_all"

\* C22 witness: a call with style exam-prep returned after both callees got 5
C22_Witness ==
    /\ comb.returned
    /\ comb.style = "exam-prep"
    /\ Len(comb.passed) = 2
    /\ comb.passed[1].final_k = 5
    /\ comb.passed[2].final_k = 5

----------------------------------------------------------------------------
(* Properties of retrieve_from_queries *)

\* C23: retrieve_from_queries called with an empty list of queries returns an empty
\* list without raising and without calling the embedder or the vector index.
C23_EmptyQueriesEmptyResult ==
    (rq.pc \in {"returned", "raised"} /\ rq.queries = <<>>) =>
        /\ rq.pc = "returned"
        /\ rq.out = <<>>
        /\ rq.embed_calls = <<>>
        /\ rq.index_calls = <<>>

\* C23 witness: a call with no queries has returned
C23_Witness ==
    /\ rq.pc = "returned"
    /\ rq.queries = <<>>
    /\ rq.final_k > 0

----------------------------------------------------------------------------
(* Properties of the plan weights *)

\* C24: for every plan with a non-empty list of subtopics, after _normalize_weights
\* the subtopic weights are integers whose sum is exactly 100, whatever the input
\* weights were (missing, non-numeric, negative, all zero, or summing to any other
\* total).
C24_WeightsSumTo100 ==
    (pl.pc = "done" /\ pl.raw # <<>>) =>
        /\ Len(pl.subs) = Len(pl.raw)
        /\ \A i \in 1..Len(pl.subs) : pl.subs[i] \in Int
        /\ SumSeq(pl.subs) = 100
        /\ SumSeq(_normalize_weights(pl.raw)) = 100

\* C24 witness: a normalized plan whose weights were a non-number, a missing one, a
\* negative one and two positive ones that do not sum to 100
C24_Witness ==
    /\ pl.pc = "done"
    /\ pl.raw = <<NonNumeric, Missing, Number(0 - 2), Number(2)>>
    /\ pl.subs = <<0, 0, 0, 100>>

\* C25 as stated: every subtopic weight of a returned plan is an integer percent in
\* the range 0 to 100; the rescaling never yields a negative weight or a weight above
\* 100, the last subtopic included.
C25_WeightsInPercentRange ==
    pl.pc = "done" => \A i \in 1..Len(pl.subs) : pl.subs[i] \in 0..100

----------------------------------------------------------------------------
(* Properties of the query expansion *)

\* a query lower-cased, its whitespace collapsed, cut to 9 words
Normalized(q) ==
    Join(SubSeq(Split(Lower(q)), 1, Min(MaxQueryWords, Len(Split(Lower(q))))), Space)

\* C26 as stated: the list returned by generate_queries_from_plan contains no
\* duplicate query: after lower-casing, whitespace collapsing and truncation to 9
\* words, no two returned queries are equal.
C26_NoDuplicateQueries ==
    qg.pc = "returned" =>
        \A i, j \in 1..Len(qg.out) :
            Normalized(qg.out[i]) = Normalized(qg.out[j]) => i = j

----------------------------------------------------------------------------
(* Properties of the combined namespace *)

\* C27 as stated: in the combined pipeline two source batches that differ in any
\* source (a different video URL, article URL or uploaded file) are assigned
\* different namespaces.
C27_DistinctBatchesDistinctNamespaces ==
    (/\ nsp.pc = "start"
     /\ nsp.ns[1] # NoNamespace
     /\ nsp.ns[2] # NoNamespace
     /\ nsp.batches[1] # nsp.batches[2]) => nsp.ns[1] # nsp.ns[2]

----------------------------------------------------------------------------
(* Properties of a repeated ingestion *)

\* run2 ingested the source of run1 again, into the same namespace, after run1 had
\* finished, and its text made fewer chunks
ReingestedShorter ==
    /\ run["run1"].pc = "done"
    /\ run["run2"].pc \in {"query", "done"}
    /\ ~run["run2"].overlapped
    /\ run["run2"].src = run["run1"].src
    /\ run["run2"].ns = run["run1"].ns
    /\ ChunkCount(run["run2"].version) < ChunkCount(run["run1"].version)

\* C28 as stated: after a source is ingested again under the same namespace with
\* content that now yields fewer chunks than before, the namespace holds exactly the
\* chunks of the latest ingestion, and retrieval in that namespace never returns a
\* chunk that only the earlier ingestion wrote.
C28_NamespaceHoldsLatestIngestion ==
    ReingestedShorter =>
        /\ NsContent(index, run["run2"].ns) = SoloContent("run2")
        /\ run["run2"].returned \subseteq
               UNION {SentBy(w) : w \in {x \in written : x.ns = run["run2"].ns
                                                        /\ x.version = run["run2"].version}}

----------------------------------------------------------------------------
(* Properties of the JSON guard inside generate_all *)

\* C29 as stated: _json_sanitize either returns a JSON object or raises: when the LLM
\* text parses as valid JSON that is not an object, generate_all fails at the parse
\* step of that objective, before any LLM call for a later objective, and not later
\* during field backfill.
C29_NonObjectFailsAtParse ==
    gen.fn = "generate_all" =>
        /\ \A i \in 1..Len(gen.outcomes) :
              gen.outcomes[i] = "not_dict" =>
                  /\ Len(gen.calls) = i
                  /\ gen.pc = "raised"
        /\ gen.error.type # "AttributeError"

----------------------------------------------------------------------------
(* Properties of the content generated from a plan *)

\* C30 as stated: generate_content_from_plan returns exactly one entry per subtopic of
\* the plan, in plan order: a subtopic whose LLM call or JSON parse fails gets an entry
\* holding the error and the subtopic title, and its failure never prevents the
\* generation of any later subtopic nor aborts the run.
C30_OneEntryPerSubtopic ==
    /\ tp.pc = "returned" =>
          /\ Len(tp.content) = Len(tp.subtopics)
          /\ \A k \in 1..Len(tp.content) : tp.content[k].turn = k
          /\ \A k \in 1..Len(tp.content) :
                tp.outcomes[k] \in {"call_failed", "parse_failed"} =>
                    /\ tp.content[k].error # ""
                    /\ tp.content[k].subtopic = tp.subtopics[k].title
    /\ \A k \in 1..Len(tp.outcomes) :
          tp.outcomes[k] \in {"call_failed", "parse_failed"} =>
              \/ tp.pc = "loop" /\ tp.i > k
              \/ tp.pc \in {"finish", "returned"} /\ Len(tp.outcomes) = Len(tp.subtopics)
              \/ tp.pc = "raised" /\ tp.error \in {"KeyError", "OSError"}

====
